---- MODULE Spec2Model ----
(***************************************************************************)
(* A model of the LayerZero/Stargate data provider's resilient query      *)
(* engine: the token-bucket RateLimiter (utils/rateLimit.ts), the         *)
(* withRetry wrapper (utils/retry.ts), StargateClient.getQuote            *)
(* (client/stargate.ts) and the bisection findMaxAmountAtSlippage         *)
(* (services/index.ts).                                                    *)
(*                                                                         *)
(* Three specifications share the module:                                  *)
(*   SpecLimiter  concurrent acquire() calls on one RateLimiter, with a    *)
(*                millisecond clock;                                       *)
(*   SpecRetry    one withRetry call over an operation whose outcome is    *)
(*                chosen per attempt;                                      *)
(*   SpecSearch   findMaxAmountAtSlippage over StargateClient.getQuote.    *)
(*                                                                         *)
(* Numbers: JavaScript doubles are modelled by exact rational arithmetic   *)
(* on integers.  The limiter's real-valued token count is held in          *)
(* thousandths of a token (refillRate = requestsPerSecond / 1000 tokens    *)
(* per millisecond, so one millisecond adds requestsPerSecond              *)
(* thousandths).                                                           *)
(***************************************************************************)
EXTENDS Integers, Sequences, FiniteSets, TLC

VARIABLES
    \* ---- RateLimiter (utils/rateLimit.ts) ----
    now,          \* Date.now(), milliseconds since the limiter was built
    maxTokens,    \* RateLimiter.maxTokens (= requestsPerSecond)
    tokens,       \* RateLimiter.tokens, in thousandths of a token
    lastRefill,   \* RateLimiter.lastRefill
    pc,           \* per caller: "idle" | "sleeping" (inside acquire's await)
    wakeAt,       \* per caller: when its setTimeout(waitTime) is due
    returned,     \* number of acquire() calls that have returned
    \* ---- withRetry (utils/retry.ts) ----
    maxRetries,   \* options.maxRetries
    baseDelayMs,  \* options.baseDelayMs
    maxDelayMs,   \* options.maxDelayMs
    shouldRetry,  \* options.shouldRetry: "default" | "never" | "quote"
    rpc,          \* "call" (fn in flight) | "sleep" | "returned" | "threw"
    attempt,      \* the for-loop's attempt counter
    lastError,    \* the lastError local
    calls,        \* how many times fn has been invoked
    failures,     \* how many of those invocations threw
    sleepCount,   \* how many backoff sleeps have been started
    jitter,       \* the last Math.random() * baseDelayMs
    delay,        \* the last computed delay
    slept,        \* the sum of the delays of the backoff sleeps started
    result,       \* what withRetry settled with
    \* ---- StargateClient.getQuote and findMaxAmountAtSlippage ----
    remote,       \* how the remote quoting service answers (fixed per run)
    clientMaxRetries, \* StargateClient.maxRetries
    acquires,     \* rateLimiter.acquire() calls of the client that returned
    requests,     \* fetch() calls the client has made
    search,       \* per running findMaxAmountAtSlippage: its locals
    \* ---- calculateEffectiveRate called on its own ----
    rateCall,     \* the arguments of one call and how it settled
    \* ---- DataProviderService (service.ts) ----
    service,      \* one getSnapshot call: its parameters and its locals
    \* ---- the clients in time, and their limiters ----
    quoteAttempt, \* one StargateClient.getQuote call with its timeout timer
    limiters,     \* the two RateLimiters of a DataProviderService, its callers
    scan          \* one LzScanClient.fetchAllMessages call

limVars == <<now, maxTokens, tokens, lastRefill, pc, wakeAt, returned>>

retryVars == <<maxRetries, baseDelayMs, maxDelayMs, shouldRetry, rpc, attempt,
               lastError, calls, failures, sleepCount, jitter, delay, slept,
               result>>

searchVars == <<remote, clientMaxRetries, acquires, requests, search>>

serviceVars == <<rateCall, service>>

clientVars == <<quoteAttempt, limiters, scan>>

vars == <<limVars, retryVars, searchVars, serviceVars, clientVars>>

\* What a step of one component leaves alone.
notLimiter == <<retryVars, searchVars, serviceVars, clientVars>>

notRetry == <<limVars, searchVars, serviceVars, clientVars>>

notSearch == <<limVars, retryVars, serviceVars, clientVars>>

notService == <<limVars, retryVars, searchVars, clientVars>>

notClient == <<limVars, retryVars, searchVars, serviceVars>>

(***************************************************************************)
(* Arithmetic helpers                                                      *)
(***************************************************************************)
Min(a, b) == IF a <= b THEN a ELSE b

Max(a, b) == IF a >= b THEN a ELSE b

\* Math.ceil(a / b) for a >= 0, b > 0
CeilDiv(a, b) == (a + b - 1) \div b

(***************************************************************************)
(* RateLimiter                                                             *)
(***************************************************************************)
\* One whole token, in the unit tokens is held in (1 / refillRate's divisor).
TokenScale == 1000

\* Callers that may be inside acquire() at once, and the clock's horizon.
NumCallers == 3

MaxTime == 1200

MaxAcquires == 5

\* requestsPerSecond values a limiter is built with.
Rates == {2, 3}

\* Amounts by which the clock may advance between two steps.
TickSteps == {100, 333}

Callers == 1..NumCallers

\* refill(): const timePassed = now - this.lastRefill
TimePassedSinceStart(t, last) == t

TimePassed(t, last) == t - last

\* refill(): this.tokens = Math.min(maxTokens, tokens + timePassed * refillRate)
RefillUncapped(tok, last, t, R) == tok + TimePassed(t, last) * R

RefillNone(tok, last, t, R) == tok

RefillWholeBucket(tok, last, t, R) ==
    IF t > last THEN R * TokenScale ELSE tok

Refill(tok, last, t, R) ==
    Min(R * TokenScale, tok + TimePassed(t, last) * R)

\* acquire(): Math.ceil((1 - this.tokens) / this.refillRate)
WaitTimeFullInterval(tok, R) == CeilDiv(TokenScale, R)

WaitTimeFloor(tok, R) == (TokenScale - tok) \div R

WaitTime(tok, R) == CeilDiv(TokenScale - tok, R)

\* One pass of acquire()'s while-loop body, run without interruption (the
\* only await is the sleep): refill, then consume and return, or sleep.
LoopBodyOverdraw(c) ==
    LET tk == Refill(tokens, lastRefill, now, maxTokens) IN
    /\ lastRefill' = now
    /\ IF tk > 0
       THEN /\ tokens' = tk - TokenScale
            /\ returned' = returned + 1
            /\ pc' = [pc EXCEPT ![c] = "idle"]
            /\ wakeAt' = [wakeAt EXCEPT ![c] = 0]
       ELSE /\ tokens' = tk
            /\ returned' = returned
            /\ pc' = [pc EXCEPT ![c] = "sleeping"]
            /\ wakeAt' = [wakeAt EXCEPT ![c] = now + WaitTime(tk, maxTokens)]
    /\ UNCHANGED <<now, maxTokens>>
    /\ UNCHANGED notLimiter

LoopBody(c) ==
    LET tk == Refill(tokens, lastRefill, now, maxTokens) IN
    /\ lastRefill' = now
    /\ IF tk >= TokenScale
       THEN /\ tokens' = tk - TokenScale
            /\ returned' = returned + 1
            /\ pc' = [pc EXCEPT ![c] = "idle"]
            /\ wakeAt' = [wakeAt EXCEPT ![c] = 0]
       ELSE /\ tokens' = tk
            /\ returned' = returned
            /\ pc' = [pc EXCEPT ![c] = "sleeping"]
            /\ wakeAt' = [wakeAt EXCEPT ![c] = now + WaitTime(tk, maxTokens)]
    /\ UNCHANGED <<now, maxTokens>>
    /\ UNCHANGED notLimiter

\* A caller enters acquire().
Acquire(c) ==
    /\ pc[c] = "idle"
    /\ returned + Cardinality({d \in Callers : pc[d] = "sleeping"}) < MaxAcquires
    /\ LoopBody(c)

\* A sleeping caller's timer fires (at its due time or later) and the loop
\* runs again.
Wake(c) ==
    /\ pc[c] = "sleeping"
    /\ now >= wakeAt[c]
    /\ LoopBody(c)

\* Time passes.
Tick(d) ==
    /\ now + d <= MaxTime
    /\ now' = now + d
    /\ UNCHANGED <<maxTokens, tokens, lastRefill, pc, wakeAt, returned>>
    /\ UNCHANGED notLimiter

\* Time passes until the earliest pending timer is due.
TickToWake ==
    LET due == {wakeAt[c] : c \in {d \in DOMAIN pc : pc[d] = "sleeping"}} IN
    /\ \E t \in due :
          /\ t > now
          /\ t <= MaxTime
          /\ \A u \in due : u > now => t <= u
          /\ now' = t
    /\ UNCHANGED <<maxTokens, tokens, lastRefill, pc, wakeAt, returned>>
    /\ UNCHANGED notLimiter

\* constructor(requestsPerSecond)
LimiterStartEmpty ==
    /\ now = 0
    /\ maxTokens \in Rates
    /\ tokens = 0
    /\ lastRefill = 0
    /\ pc = [c \in Callers |-> "idle"]
    /\ wakeAt = [c \in Callers |-> 0]
    /\ returned = 0

LimiterStart ==
    /\ now = 0
    /\ maxTokens \in Rates
    /\ tokens = maxTokens * TokenScale
    /\ lastRefill = 0
    /\ pc = [c \in Callers |-> "idle"]
    /\ wakeAt = [c \in Callers |-> 0]
    /\ returned = 0

LimiterNext ==
    \/ \E c \in Callers : Acquire(c)
    \/ \E c \in Callers : Wake(c)
    \/ \E d \in TickSteps : Tick(d)
    \/ TickToWake

\* Finitely many acquire() calls within the clock's horizon: a call is
\* started only while the time left covers one token interval for every
\* caller then waiting.
FairAcquire(c) ==
    /\ now + (Cardinality({d \in DOMAIN pc : pc[d] = "sleeping"}) + 1)
              * WaitTime(0, maxTokens) <= MaxTime
    /\ Acquire(c)

\* Time passes while nobody waits.
IdleTick(d) ==
    /\ \A c \in DOMAIN pc : pc[c] # "sleeping"
    /\ Tick(d)

\* While somebody waits, time advances to the next timer that is due.
FairNext ==
    \/ \E c \in Callers : FairAcquire(c)
    \/ \E c \in Callers : Wake(c)
    \/ \E d \in TickSteps : IdleTick(d)
    \/ TickToWake

(***************************************************************************)
(* A burst: Promise.all over BurstSize acquire() calls on a fresh          *)
(* RateLimiter(BurstRate).  The calls are started one after the other with *)
(* no await in between, so all of them have run their first loop pass      *)
(* before the clock moves.                                                 *)
(***************************************************************************)
BurstRate == 5

BurstSize == 10

BurstCallers == 1..BurstSize

\* acquire() calls started so far: returned or asleep.
Started == returned + Cardinality({c \in DOMAIN pc : pc[c] = "sleeping"})

BurstStart ==
    /\ now = 0
    /\ maxTokens = BurstRate
    /\ tokens = maxTokens * TokenScale
    /\ lastRefill = 0
    /\ pc = [c \in BurstCallers |-> "idle"]
    /\ wakeAt = [c \in BurstCallers |-> 0]
    /\ returned = 0

\* Array(10).fill(0).map(async ...) calls acquire() for each index in turn.
BurstAcquire(c) ==
    /\ pc[c] = "idle"
    /\ now = 0
    /\ c = Started + 1
    /\ LoopBody(c)

BurstTick(d) ==
    /\ Started = BurstSize
    /\ Tick(d)

BurstTickToWake ==
    /\ Started = BurstSize
    /\ TickToWake

BurstNext ==
    \/ \E c \in BurstCallers : BurstAcquire(c)
    \/ \E c \in BurstCallers : Wake(c)
    \/ \E d \in TickSteps : BurstTick(d)
    \/ BurstTickToWake

(***************************************************************************)
(* withRetry                                                               *)
(***************************************************************************)
\* An error is [status, id]: status is the status code the thrown object
\* carries, or NoStatus for a thrown value with no "status" property (an
\* Error, an AbortError, a ZodError); id tells the thrown objects apart (the
\* number of the invocation that threw it).
NoStatus == 0

NoError == [status |-> NoStatus, id |-> 0]

HasStatus(e) == e.status # NoStatus

\* Largest options.maxRetries tried.
MaxRetriesBound == 3

BaseDelays == {1, 100, 500, 1000}

MaxDelays == {0, 500, 1000, 3000}

\* Status codes the operation's failures carry (NoStatus: none).
Statuses == {NoStatus, 404, 429, 499, 500, 503}

Predicates == {"default", "never", "quote"}

\* The default shouldRetry of withRetry.
ShouldRetryDefaultStrict(e) ==
    IF HasStatus(e) THEN e.status = 429 \/ e.status > 500 ELSE TRUE

ShouldRetryDefault(e) ==
    IF HasStatus(e) THEN e.status = 429 \/ e.status >= 500 ELSE TRUE

\* The shouldRetry StargateClient.getQuote passes.
ShouldRetryQuote(e) ==
    IF HasStatus(e) THEN e.status = 429 \/ e.status >= 500 ELSE FALSE

\* shouldRetry: () => false
ShouldRetryNever(e) == FALSE

ShouldRetry(pred, e) ==
    CASE pred = "default" -> ShouldRetryDefault(e)
      [] pred = "quote" -> ShouldRetryQuote(e)
      [] OTHER -> ShouldRetryNever(e)

\* The remote operations of the two clients and the predicate each hands to
\* withRetry: getQuote and fetchMessages pass their own (the same one),
\* getTokens and getChains pass none and get the default.
Operations == {"getQuote", "getTokens", "getChains", "fetchMessages"}

PredicateOf(op) ==
    IF op \in {"getQuote", "fetchMessages"} THEN "quote" ELSE "default"

RECURSIVE Pow2(_)
\* Math.pow(2, n)
Pow2(n) == IF n = 0 THEN 1 ELSE 2 * Pow2(n - 1)

\* Math.min(baseDelayMs * Math.pow(2, attempt) + jitter, maxDelayMs)
BackoffDelayUncapped(base, n, jit, maxD) == base * Pow2(n) + jit

BackoffDelay(base, n, jit, maxD) == Min(base * Pow2(n) + jit, maxD)

\* Math.random() * baseDelayMs lies in [0, baseDelayMs): the least, a middle
\* and the greatest whole value.
JitterChoices(base) == {0, base \div 2, base - 1}

\* if (attempt === maxRetries || !shouldRetry(error)) throw error
GivesUpIgnoringPredicate(att, maxR, pred, e) == att = maxR

GivesUpOneEarly(att, maxR, pred, e) == att + 1 >= maxR \/ ~ShouldRetry(pred, e)

GivesUp(att, maxR, pred, e) == att = maxR \/ ~ShouldRetry(pred, e)

\* fn() resolves: return await fn()
RetryCallOk ==
    /\ rpc = "call"
    /\ calls' = calls + 1
    /\ rpc' = "returned"
    /\ result' = [kind |-> "value", error |-> NoError]
    /\ UNCHANGED <<maxRetries, baseDelayMs, maxDelayMs, shouldRetry, attempt,
                   lastError, failures, sleepCount, jitter, delay, slept>>
    /\ UNCHANGED notRetry

\* fn() rejects with a failure carrying status st: the catch block.
RetryCallFail(st) ==
    LET error == [status |-> st, id |-> calls + 1] IN
    /\ rpc = "call"
    /\ calls' = calls + 1
    /\ failures' = failures + 1
    /\ lastError' = error
    /\ IF GivesUp(attempt, maxRetries, shouldRetry, error)
       THEN /\ rpc' = "threw"
            /\ result' = [kind |-> "error", error |-> error]
            /\ UNCHANGED <<jitter, delay, slept, sleepCount>>
       ELSE /\ \E jit \in JitterChoices(baseDelayMs) :
                 /\ jitter' = jit
                 /\ delay' = BackoffDelay(baseDelayMs, attempt, jit, maxDelayMs)
                 /\ slept' = slept +
                        BackoffDelay(baseDelayMs, attempt, jit, maxDelayMs)
            /\ sleepCount' = sleepCount + 1
            /\ rpc' = "sleep"
            /\ UNCHANGED result
    /\ UNCHANGED <<maxRetries, baseDelayMs, maxDelayMs, shouldRetry, attempt>>
    /\ UNCHANGED notRetry

\* The backoff timer fires: attempt++, then the loop test, then fn() again
\* (or, the loop left, throw lastError).
RetrySleepDoneSleepsAgain ==
    /\ rpc = "sleep"
    /\ IF sleepCount <= calls
       THEN /\ sleepCount' = sleepCount + 1
            /\ slept' = slept + delay
            /\ UNCHANGED <<rpc, attempt, result>>
       ELSE /\ attempt' = attempt + 1
            /\ rpc' = "call"
            /\ UNCHANGED <<result, sleepCount, slept>>
    /\ UNCHANGED <<maxRetries, baseDelayMs, maxDelayMs, shouldRetry,
                   lastError, calls, failures, jitter, delay>>
    /\ UNCHANGED notRetry

RetrySleepDone ==
    /\ rpc = "sleep"
    /\ attempt' = attempt + 1
    /\ IF attempt + 1 <= maxRetries
       THEN /\ rpc' = "call"
            /\ UNCHANGED result
       ELSE /\ rpc' = "threw"
            /\ result' = [kind |-> "error", error |-> lastError]
    /\ UNCHANGED <<maxRetries, baseDelayMs, maxDelayMs, shouldRetry,
                   lastError, calls, failures, sleepCount, jitter, delay, slept>>
    /\ UNCHANGED notRetry

\* withRetry(fn, options) has been called and fn() is in flight.
RetryStart ==
    /\ maxRetries \in 0..MaxRetriesBound
    /\ baseDelayMs \in BaseDelays
    /\ maxDelayMs \in MaxDelays
    /\ shouldRetry \in Predicates
    /\ rpc = "call"
    /\ attempt = 0
    /\ lastError = NoError
    /\ calls = 0
    /\ failures = 0
    /\ sleepCount = 0
    /\ jitter = 0
    /\ delay = 0
    /\ slept = 0
    /\ result = [kind |-> "none", error |-> NoError]

(***************************************************************************)
(* calculateEffectiveRate and the slippage formula                         *)
(*                                                                         *)
(* A JavaScript number is held as a fraction [num, den] in lowest terms:   *)
(* den > 0 is the finite value num/den, den = 0 with num = 1 is Infinity   *)
(* and den = 0 with num = 0 is NaN.  Amounts are non-negative.             *)
(***************************************************************************)
RECURSIVE Gcd(_, _)
Gcd(a, b) == IF b = 0 THEN a ELSE Gcd(b, a % b)

RECURSIVE Pow10(_)
\* 10 ** n, Math.pow(10, n)
Pow10(n) == IF n = 0 THEN 1 ELSE 10 * Pow10(n - 1)

NaNNumber == [num |-> 0, den |-> 0]

Infinity == [num |-> 1, den |-> 0]

IsNaN(r) == r.den = 0 /\ r.num = 0

IsInfinite(r) == r.den = 0 /\ r.num # 0

\* n / d as a JavaScript division of two non-negative finite numbers
Frac(n, d) ==
    IF d = 0
    THEN (IF n = 0 THEN NaNNumber ELSE Infinity)
    ELSE LET g == Gcd(n, d) IN [num |-> n \div g, den |-> d \div g]

\* x * y for finite x and finite positive y, cancelling before multiplying
FracMul(x, y) ==
    LET g1 == Gcd(x.num, y.den)
        g2 == Gcd(y.num, x.den)
    IN  [num |-> (x.num \div g1) * (y.num \div g2),
         den |-> (x.den \div g2) * (y.den \div g1)]

\* x / y as JavaScript divides
FracDiv(x, y) ==
    IF IsNaN(x) \/ IsNaN(y) THEN NaNNumber
    ELSE IF IsInfinite(x) THEN (IF IsInfinite(y) THEN NaNNumber ELSE Infinity)
    ELSE IF IsInfinite(y) THEN Frac(0, 1)
    ELSE IF y.num = 0 THEN (IF x.num = 0 THEN NaNNumber ELSE Infinity)
    ELSE FracMul(x, [num |-> y.den, den |-> y.num])

\* calculateEffectiveRate(srcAmount, dstAmount, srcDecimals, dstDecimals):
\* (dstAmount / 10^dstDecimals) / (srcAmount / 10^srcDecimals)
calculateEffectiveRate(srcAmount, dstAmount, srcDecimals, dstDecimals) ==
    FracDiv(Frac(dstAmount, Pow10(dstDecimals)),
            Frac(srcAmount, Pow10(srcDecimals)))

\* slippageBps when the formula yields NaN
NaN == -1

\* 10_000 = 10^BpsDigits
BpsDigits == 4

RECURSIVE ScaleDiv(_, _, _)
\* <<quotient, remainder>> of n * 10^k divided by d, one digit at a time
ScaleDiv(n, d, k) ==
    IF k = 0
    THEN <<n \div d, n % d>>
    ELSE LET qr == ScaleDiv(n, d, k - 1)
         IN  <<qr[1] * 10 + (qr[2] * 10) \div d, (qr[2] * 10) % d>>

\* Math.round(n / d * 10_000) for 0 < n <= d: halves round up
RoundBps(n, d) ==
    LET qr == ScaleDiv(n, d, BpsDigits)
    IN  qr[1] + (IF 2 * qr[2] >= d THEN 1 ELSE 0)

\* Math.max(0, Math.round((1 - rate / baseRate) * 10_000))
SlippageBps(rate, baseRate) ==
    LET q == FracDiv(rate, baseRate) IN
    IF IsNaN(q) THEN NaN
    ELSE IF IsInfinite(q) THEN 0
    ELSE IF q.num >= q.den THEN 0
    ELSE RoundBps(q.den - q.num, q.den)

(***************************************************************************)
(* The remote quoting service                                              *)
(*                                                                         *)
(* A deterministic function of the amount asked and of the attempt number  *)
(* within one getQuote call.  Amounts up to zeroUpTo are quoted one for    *)
(* one, up to fiftyUpTo at 0.5% less (rounded in the sender's favour), up  *)
(* to hundredUpTo at 1% less, above that at nothing; above quotesUpTo the  *)
(* service returns no quote.  For amounts in faultFrom..faultTo the first  *)
(* faultAttempts attempts of every call fail as faultKind says.            *)
(***************************************************************************)
NeverAbove == 1000000000

Curves ==
    { [zeroUpTo |-> 0, fiftyUpTo |-> 0, hundredUpTo |-> 0,
                              dipFrom |-> 0, dipTo |-> 0],
      [zeroUpTo |-> NeverAbove, fiftyUpTo |-> NeverAbove, hundredUpTo |-> NeverAbove,
                              dipFrom |-> 0, dipTo |-> 0],
      [zeroUpTo |-> 30000, fiftyUpTo |-> 500000, hundredUpTo |-> 800000,
                              dipFrom |-> 0, dipTo |-> 0],
      [zeroUpTo |-> 30000, fiftyUpTo |-> 40000000, hundredUpTo |-> 70000000,
                              dipFrom |-> 0, dipTo |-> 0],
      [zeroUpTo |-> 30000, fiftyUpTo |-> 12345600, hundredUpTo |-> NeverAbove,
                              dipFrom |-> 0, dipTo |-> 0],
      [zeroUpTo |-> 250000, fiftyUpTo |-> 250000, hundredUpTo |-> 600000,
                              dipFrom |-> 0, dipTo |-> 0],
      [zeroUpTo |-> 0, fiftyUpTo |-> NeverAbove, hundredUpTo |-> NeverAbove,
                              dipFrom |-> 0, dipTo |-> 0],
      [zeroUpTo |-> 123400, fiftyUpTo |-> 123400, hundredUpTo |-> 123400,
                              dipFrom |-> 0, dipTo |-> 0] }

QuoteLimits == {50, 700000, 45000000, NeverAbove}

NoFault == [faultKind |-> "none", faultStatus |-> 0,
            faultFrom |-> 0, faultTo |-> 0, faultAttempts |-> 0]

FaultRanges == {<<1, 100>>, <<400000, 600000>>, <<40000000, 60000000>>}

\* A fault that outlasts every retry.
EveryAttempt == 99

Faults ==
    {NoFault}
    \cup { [faultKind |-> "status", faultStatus |-> st,
            faultFrom |-> r[1], faultTo |-> r[2], faultAttempts |-> n] :
           st \in {429, 500}, r \in FaultRanges, n \in {1, EveryAttempt} }
    \cup { [faultKind |-> k, faultStatus |-> st,
            faultFrom |-> r[1], faultTo |-> r[2], faultAttempts |-> EveryAttempt] :
           k \in {"status"}, st \in {404}, r \in FaultRanges }
    \cup { [faultKind |-> k, faultStatus |-> 0,
            faultFrom |-> r[1], faultTo |-> r[2], faultAttempts |-> EveryAttempt] :
           k \in {"timeout", "malformed"}, r \in FaultRanges }

Remotes ==
    { [curve |-> c, quotesUpTo |-> t, fault |-> f] :
      c \in Curves, t \in QuoteLimits, f \in Faults }

\* Curves whose price is not monotone in the amount: the amounts from dipFrom
\* to dipTo are quoted 80 bps short, whatever the amounts around them get.
DipCurves ==
    { [zeroUpTo |-> NeverAbove, fiftyUpTo |-> NeverAbove,
       hundredUpTo |-> NeverAbove, dipFrom |-> 400000, dipTo |-> 600000],
      [zeroUpTo |-> 300000, fiftyUpTo |-> 300000,
       hundredUpTo |-> 300000, dipFrom |-> 400000, dipTo |-> 600000] }

\* The dstAmount the service quotes for srcAmount a.
DstAmount(rm, a) ==
    IF rm.curve.dipFrom <= a /\ a <= rm.curve.dipTo THEN a - a \div 125
    ELSE IF a <= rm.curve.zeroUpTo THEN a
    ELSE IF a <= rm.curve.fiftyUpTo THEN a - a \div 200
    ELSE IF a <= rm.curve.hundredUpTo THEN a - a \div 100
    ELSE 0

Faulty(rm, a, att) ==
    /\ rm.fault.faultKind # "none"
    /\ rm.fault.faultFrom <= a
    /\ a <= rm.fault.faultTo
    /\ att < rm.fault.faultAttempts

\* What one fetch of /quotes for srcAmount a yields on attempt att: an HTTP
\* status that is not ok, a timeout (the AbortController fires), a body the
\* schema rejects, an empty quotes array, or a first quote.
Response(rm, a, att) ==
    IF Faulty(rm, a, att)
    THEN [kind |-> rm.fault.faultKind, status |-> rm.fault.faultStatus,
          srcAmount |-> a, dstAmount |-> 0]
    ELSE IF a > rm.quotesUpTo
    THEN [kind |-> "empty", status |-> 200, srcAmount |-> a, dstAmount |-> 0]
    ELSE [kind |-> "quote", status |-> 200, srcAmount |-> a,
          dstAmount |-> DstAmount(rm, a)]

(***************************************************************************)
(* StargateClient.getQuote                                                 *)
(***************************************************************************)
NoFailure == [status |-> NoStatus, name |-> "none"]

\* What the function passed to withRetry throws for a response that is not
\* a quote.
ErrorOf(resp) ==
    CASE resp.kind = "status" -> [status |-> resp.status, name |-> "HttpError"]
      [] resp.kind = "timeout" -> [status |-> NoStatus, name |-> "AbortError"]
      [] resp.kind = "malformed" -> [status |-> NoStatus, name |-> "ZodError"]
      [] OTHER -> [status |-> NoStatus, name |-> "NoQuotes"]

\* MAX_RETRIES values the client is built with.
ClientRetries == {1, 2}

(***************************************************************************)
(* findMaxAmountAtSlippage                                                 *)
(***************************************************************************)
\* for (let i = 0; i < 24; i++)
MaxIterations == 24

\* hi = BigInt(1_000_000) * BigInt(10 ** srcDecimals)
UnitsCeiling == 1000000

Targets == {50, 100}

\* srcDecimals = dstDecimals of the routes searched.
DecimalsSet == {0, 2}

\* Searches running on one client.
Searches == {1}

\* findMaxAmountAtSlippage has been called: samples is empty and the
\* baseline getQuote (one whole unit) is waiting in rateLimiter.acquire().
\* lo, hi, bestAmount and bestSlippage are not declared yet (held as 0).
\* quoteCalls counts the getQuote calls made, error is what the search
\* rejected with, swallowed the last error its catch block discarded.
SearchCalled(target, dec) ==
    [pc |-> "acquire", phase |-> "baseline",
     targetBps |-> target, srcDecimals |-> dec, dstDecimals |-> dec,
     srcAmount |-> Pow10(dec), attempt |-> 0, quoteCalls |-> 1,
     baseRate |-> NaNNumber, lo |-> 0, hi |-> 0, mid |-> 0,
     bestAmount |-> 0, bestSlippage |-> 0, i |-> 0, samples |-> <<>>,
     error |-> NoFailure, swallowed |-> NoFailure]

\* if (slippageBps <= params.targetBps); a comparison with NaN is false
AcceptableInverted(slippageBps, targetBps) ==
    slippageBps # NaN /\ slippageBps >= targetBps

AcceptableExact(slippageBps, targetBps) ==
    slippageBps # NaN /\ slippageBps = targetBps

AcceptableStrict(slippageBps, targetBps) ==
    slippageBps # NaN /\ slippageBps < targetBps

Acceptable(slippageBps, targetBps) ==
    slippageBps # NaN /\ slippageBps <= targetBps

\* The head of the for loop, up to the next await: leave the loop and
\* return, or compute mid and call getQuote (which first awaits acquire()).
LoopHeadLinear(f) ==
    IF f.i < MaxIterations /\ f.lo <= f.hi
    THEN [f EXCEPT !.mid = f.lo,
                   !.srcAmount = f.lo,
                   !.attempt = 0,
                   !.quoteCalls = f.quoteCalls + 1,
                   !.pc = "acquire"]
    ELSE [f EXCEPT !.pc = "returned"]

LoopHeadSharedCount(f) ==
    IF acquires < MaxIterations + 1 /\ f.lo <= f.hi
    THEN [f EXCEPT !.mid = (f.lo + f.hi) \div 2,
                   !.srcAmount = (f.lo + f.hi) \div 2,
                   !.attempt = 0,
                   !.quoteCalls = f.quoteCalls + 1,
                   !.pc = "acquire"]
    ELSE [f EXCEPT !.pc = "returned"]

LoopHeadUncapped(f) ==
    IF f.lo <= f.hi
    THEN [f EXCEPT !.mid = (f.lo + f.hi) \div 2,
                   !.srcAmount = (f.lo + f.hi) \div 2,
                   !.attempt = 0,
                   !.quoteCalls = f.quoteCalls + 1,
                   !.pc = "acquire"]
    ELSE [f EXCEPT !.pc = "returned"]

LoopHead(f) ==
    IF f.i < MaxIterations /\ f.lo <= f.hi
    THEN [f EXCEPT !.mid = (f.lo + f.hi) \div 2,
                   !.srcAmount = (f.lo + f.hi) \div 2,
                   !.attempt = 0,
                   !.quoteCalls = f.quoteCalls + 1,
                   !.pc = "acquire"]
    ELSE [f EXCEPT !.pc = "returned"]

\* The baseline getQuote resolved: baseRate, the first sample, the bounds.
OnBaselineQuote(f, quote) ==
    LoopHead([f EXCEPT
        !.phase = "bisect",
        !.baseRate = calculateEffectiveRate(quote.srcAmount, quote.dstAmount,
                                            f.srcDecimals, f.dstDecimals),
        !.samples = <<[srcAmount |-> quote.srcAmount,
                       dstAmount |-> quote.dstAmount, slippageBps |-> 0]>>,
        !.lo = Pow10(f.srcDecimals),
        !.hi = UnitsCeiling * Pow10(f.srcDecimals),
        !.bestAmount = Pow10(f.srcDecimals),
        !.bestSlippage = 0,
        !.i = 0])

\* The baseline getQuote rejected: nothing catches it.
OnBaselineErrorFallback(f, e) ==
    [f EXCEPT !.pc = "returned", !.bestAmount = 0, !.bestSlippage = 0]

OnBaselineError(f, e) ==
    [f EXCEPT !.pc = "failed", !.error = e]

\* A bisection getQuote resolved: the try block, then i++ and the loop head.
OnProbeQuoteKeepsMid(f, quote) ==
    LET rate == calculateEffectiveRate(quote.srcAmount, quote.dstAmount,
                                       f.srcDecimals, f.dstDecimals)
        slippageBps == SlippageBps(rate, f.baseRate)
        sampled == [f EXCEPT !.samples = Append(f.samples,
                        [srcAmount |-> quote.srcAmount,
                         dstAmount |-> quote.dstAmount,
                         slippageBps |-> slippageBps])]
    IN  LoopHead(
          IF Acceptable(slippageBps, f.targetBps)
          THEN [sampled EXCEPT !.bestAmount = f.mid,
                               !.bestSlippage = slippageBps,
                               !.lo = f.mid + 1,
                               !.i = f.i + 1]
          ELSE [sampled EXCEPT !.hi = f.mid,
                               !.i = f.i + 1])

OnProbeQuoteBestLo(f, quote) ==
    LET rate == calculateEffectiveRate(quote.srcAmount, quote.dstAmount,
                                       f.srcDecimals, f.dstDecimals)
        slippageBps == SlippageBps(rate, f.baseRate)
        sampled == [f EXCEPT !.samples = Append(f.samples,
                        [srcAmount |-> quote.srcAmount,
                         dstAmount |-> quote.dstAmount,
                         slippageBps |-> slippageBps])]
    IN  LoopHead(
          IF Acceptable(slippageBps, f.targetBps)
          THEN [sampled EXCEPT !.bestAmount = f.lo,
                               !.bestSlippage = slippageBps,
                               !.lo = f.mid + 1,
                               !.i = f.i + 1]
          ELSE [sampled EXCEPT !.hi = f.mid - 1,
                               !.i = f.i + 1])

OnProbeQuoteUnapplied(f, quote) ==
    LoopHead([f EXCEPT !.samples = Append(f.samples,
                           [srcAmount |-> quote.srcAmount,
                            dstAmount |-> quote.dstAmount,
                            slippageBps |-> 0]),
                       !.i = f.i + 1])

OnProbeQuote(f, quote) ==
    LET rate == calculateEffectiveRate(quote.srcAmount, quote.dstAmount,
                                       f.srcDecimals, f.dstDecimals)
        slippageBps == SlippageBps(rate, f.baseRate)
        sampled == [f EXCEPT !.samples = Append(f.samples,
                        [srcAmount |-> quote.srcAmount,
                         dstAmount |-> quote.dstAmount,
                         slippageBps |-> slippageBps])]
    IN  LoopHead(
          IF Acceptable(slippageBps, f.targetBps)
          THEN [sampled EXCEPT !.bestAmount = f.mid,
                               !.bestSlippage = slippageBps,
                               !.lo = f.mid + 1,
                               !.i = f.i + 1]
          ELSE [sampled EXCEPT !.hi = f.mid - 1,
                               !.i = f.i + 1])

\* A bisection getQuote rejected: catch (error) { hi = mid - 1n }
OnProbeErrorSurfaced(f, e) ==
    [f EXCEPT !.pc = "failed", !.error = e]

OnProbeErrorSampled(f, e) ==
    LoopHead([f EXCEPT !.hi = f.mid - 1, !.i = f.i + 1, !.swallowed = e,
                       !.samples = Append(f.samples,
                           [srcAmount |-> f.srcAmount, dstAmount |-> 0,
                            slippageBps |-> 0])])

OnProbeErrorAccepts(f, e) ==
    LoopHead([f EXCEPT !.bestAmount = f.mid, !.lo = f.mid + 1,
                       !.i = f.i + 1, !.swallowed = e])

OnProbeError(f, e) ==
    LoopHead([f EXCEPT !.hi = f.mid - 1, !.i = f.i + 1, !.swallowed = e])

\* rateLimiter.acquire() returns inside getQuote; withRetry starts and makes
\* its first fetch.
GetQuoteAcquiredShared(s) ==
    /\ search[s].pc = "acquire"
    /\ acquires' = acquires + 1
    /\ requests' = requests + 1
    /\ search' = [t \in DOMAIN search |->
                    IF t = s
                    THEN [search[t] EXCEPT !.pc = "fetch", !.attempt = 0]
                    ELSE [search[t] EXCEPT !.attempt = 0]]
    /\ UNCHANGED <<remote, clientMaxRetries>>
    /\ UNCHANGED notSearch

GetQuoteAcquired(s) ==
    /\ search[s].pc = "acquire"
    /\ acquires' = acquires + 1
    /\ requests' = requests + 1
    /\ search' = [search EXCEPT ![s].pc = "fetch", ![s].attempt = 0]
    /\ UNCHANGED <<remote, clientMaxRetries>>
    /\ UNCHANGED notSearch

\* A fetch settles.  A quote resolves getQuote and the search goes on to its
\* next await; a failure goes to withRetry's catch block, which sleeps for a
\* retry or rejects getQuote, and the search goes on from there.
GetQuoteResponse(s) ==
    LET f == search[s]
        resp == Response(remote, f.srcAmount, f.attempt)
        e == ErrorOf(resp)
    IN
    /\ f.pc = "fetch"
    /\ search' = [search EXCEPT ![s] =
          IF resp.kind = "quote"
          THEN IF f.phase = "baseline"
               THEN OnBaselineQuote(f, resp)
               ELSE OnProbeQuote(f, resp)
          ELSE IF GivesUp(f.attempt, clientMaxRetries, "quote", e)
               THEN IF f.phase = "baseline"
                    THEN OnBaselineError(f, e)
                    ELSE OnProbeError(f, e)
               ELSE [f EXCEPT !.pc = "sleep"]]
    /\ UNCHANGED <<remote, clientMaxRetries, acquires, requests>>
    /\ UNCHANGED notSearch

\* withRetry's backoff sleep ends: attempt++ and the next fetch.
GetQuoteRetry(s) ==
    /\ search[s].pc = "sleep"
    /\ requests' = requests + 1
    /\ search' = [search EXCEPT ![s].pc = "fetch",
                                ![s].attempt = search[s].attempt + 1]
    /\ UNCHANGED <<remote, clientMaxRetries, acquires>>
    /\ UNCHANGED notSearch

SearchStart ==
    /\ remote \in Remotes
    /\ clientMaxRetries \in ClientRetries
    /\ acquires = 0
    /\ requests = 0
    /\ \E target \in Targets, dec \in DecimalsSet :
          search = [s \in Searches |-> SearchCalled(target, dec)]

\* The client's and the search's variables in a specification that does not
\* run them.
SearchUnused ==
    /\ remote = [curve |-> [zeroUpTo |-> 0, fiftyUpTo |-> 0, hundredUpTo |-> 0,
                              dipFrom |-> 0, dipTo |-> 0],
                 quotesUpTo |-> 0, fault |-> NoFault]
    /\ clientMaxRetries = 0
    /\ acquires = 0
    /\ requests = 0
    /\ search = <<>>

(***************************************************************************)
(* calculateEffectiveRate called on its own (services/index.ts)            *)
(***************************************************************************)
\* srcAmount and dstAmount of the calls examined (decimal strings of
\* non-negative integers, which BigInt() accepts)
RateAmounts == {0, 1, 100, 995, 1000000}

NoRate == [kind |-> "pending", value |-> NaNNumber]

RateCalled(src, dst, srcDec, dstDec) ==
    [srcAmount |-> src, dstAmount |-> dst,
     srcDecimals |-> srcDec, dstDecimals |-> dstDec, out |-> NoRate]

RateStart ==
    \E src \in RateAmounts, dst \in RateAmounts,
       srcDec \in DecimalsSet, dstDec \in DecimalsSet :
        rateCall = RateCalled(src, dst, srcDec, dstDec)

\* The body has no throw statement and no check of its operands: every
\* call returns the quotient as a number.
RateReturns ==
    /\ rateCall.out.kind = "pending"
    /\ rateCall' = [rateCall EXCEPT !.out =
                      [kind |-> "number",
                       value |-> calculateEffectiveRate(
                                    rateCall.srcAmount, rateCall.dstAmount,
                                    rateCall.srcDecimals,
                                    rateCall.dstDecimals)]]
    /\ UNCHANGED <<service, notService>>

RateUnused == rateCall = RateCalled(0, 0, 0, 0)

(***************************************************************************)
(* DataProviderService.getSnapshot (service.ts)                            *)
(*                                                                         *)
(* One getSnapshot call.  Its four parts run concurrently under            *)
(* Promise.all; each step below is one continuation of one part.  A        *)
(* Promise.all of two requests inside a part (the two searches of a route, *)
(* getTokens and getChains) is one step that draws how both settled: the   *)
(* part continues with both values, or in its catch block when either      *)
(* threw.  Timestamps (measuredAt, quotedAt) and totalFeesUsd are left     *)
(* out.                                                                    *)
(***************************************************************************)
RouteA == [id |-> "A", srcDecimals |-> 2, dstDecimals |-> 2]

RouteB == [id |-> "B", srcDecimals |-> 0, dstDecimals |-> 2]

\* params.routes
RouteLists == { <<RouteA>>, <<RouteA, RouteB>>, <<RouteB, RouteA>> }

\* params.notionals
NotionalLists == { <<100>> }

\* params.includeWindows: absent, or a list
WindowParams == { [given |-> FALSE, windows |-> <<>>],
                  [given |-> TRUE, windows |-> <<"7d", "24h">>] }

\* params.includeWindows || ["24h"]
IncludedWindows(p) == IF p.given THEN p.windows ELSE <<"24h">>

\* How an awaited call settled: with a value, or by throwing.
Threw == [kind |-> "threw", value |-> 0]

Ok(v) == [kind |-> "ok", value |-> v]

\* computeVolume's raw, counted in units of 10^15 wei
RawVolumes == {0, 1500}

VolumeOutcomes == { Ok(r) : r \in RawVolumes } \cup {Threw}

\* getQuote's dstAmount in getRates
QuoteOutcomes == { Ok(99), Threw }

\* findMaxAmountAtSlippage's maxSrcAmount
SearchOutcomes == { Ok(100), Ok(700000), Threw }

TokenEth == [chainKey |-> "ethereum", address |-> "0xa", symbol |-> "USDC",
             decimals |-> 6]

TokenOther == [chainKey |-> "mantle", address |-> "0xb", symbol |-> "USDT",
               decimals |-> 6]

TokenLists == { <<>>, <<TokenEth>>, <<TokenEth, TokenOther>> }

\* chainId is carried as the string chainId.toString() gives
ChainEth == [chainKey |-> "ethereum", chainId |-> "1"]

ListThrew == [kind |-> "threw", value |-> <<>>]

TokensOutcomes == { Ok(t) : t \in TokenLists } \cup {ListThrew}

ChainsOutcomes == { Ok(<<ChainEth>>), ListThrew }

\* 1e18 wei, in the unit of RawVolumes
RawPerEth == 1000

UsdPerEth == 2000

\* Number(volumeData.raw) / 1e18 * 2000
VolumeUsd(raw) == FracMul(Frac(raw, RawPerEth), Frac(UsdPerEth, 1))

\* chainKeyToId.get(token.chainKey) || token.chainKey; a later entry of
\* chains replaces an earlier one with the same key
ChainIdOf(chains, key) ==
    LET hits == { i \in 1..Len(chains) : chains[i].chainKey = key }
    IN  IF hits = {} THEN key
        ELSE chains[CHOOSE i \in hits : \A j \in hits : j <= i].chainId

ToAsset(token, chains) ==
    [chainId |-> ChainIdOf(chains, token.chainKey),
     assetId |-> token.address,
     symbol |-> token.symbol,
     decimals |-> token.decimals]

NoSnapshot == [kind |-> "none", volumes |-> <<>>, rates |-> <<>>,
               liquidity |-> <<>>, listedAssets |-> <<>>]

\* Before getSnapshot is called.  volumeFailed, searched, pushed and
\* assetsFailed record what happened and are read by no step.
ServiceIdle ==
    [phase |-> "idle",
     routes |-> <<>>, notionals |-> <<>>, windows |-> <<>>,
     volumes |-> <<>>,       \* getVolumes: one entry per window
     volumeFailed |-> {},    \* the windows whose computeVolume threw
     rates |-> <<>>,         \* getRates: the rates array
     ratePos |-> 1,          \* getRates: position in the two nested loops
     liquidity |-> <<>>,     \* getLiquidityDepth: the liquidity array
     routePos |-> 1,         \* getLiquidityDepth: position in the loop
     searched |-> <<>>,      \* per route gone through: how its searches settled
     pushed |-> <<>>,        \* per liquidity entry: the position of its route
     assetsDone |-> FALSE,   \* getListedAssets has returned
     listedAssets |-> <<>>,  \* its assets
     assetsFailed |-> FALSE, \* it returned from its catch block
     snapshot |-> NoSnapshot]

SnapshotUnused == service = ServiceIdle

ServiceUnused == RateUnused /\ SnapshotUnused

\* getSnapshot(params): the four parts start; getVolumes starts one
\* computeVolume per window.
GetSnapshot(routes, notionals, windowParam) ==
    /\ service.phase = "idle"
    /\ service' = [service EXCEPT
          !.phase = "running",
          !.routes = routes,
          !.notionals = notionals,
          !.windows = IncludedWindows(windowParam),
          !.volumes = [i \in 1..Len(IncludedWindows(windowParam)) |->
                         [window |-> IncludedWindows(windowParam)[i],
                          pending |-> TRUE,
                          volumeUsd |-> Frac(0, 1)]]]
    /\ UNCHANGED <<rateCall, notService>>

\* getVolumes: computeVolume for window i settles; a failure is caught and
\* the entry gets volumeUsd 0.
VolumeSettles(i, o) ==
    /\ service.phase = "running"
    /\ i \in 1..Len(service.volumes)
    /\ service.volumes[i].pending
    /\ service' = [service EXCEPT
          !.volumes[i] = [window |-> service.windows[i],
                          pending |-> FALSE,
                          volumeUsd |-> IF o.kind = "ok"
                                        THEN VolumeUsd(o.value)
                                        ELSE Frac(0, 1)],
          !.volumeFailed = IF o.kind = "ok" THEN @ ELSE @ \cup {i}]
    /\ UNCHANGED <<rateCall, notService>>

VolumesDone ==
    \A i \in 1..Len(service.volumes) : ~service.volumes[i].pending

RateRoute == ((service.ratePos - 1) \div Len(service.notionals)) + 1

RateNotional == ((service.ratePos - 1) % Len(service.notionals)) + 1

RatesDone == service.ratePos > Len(service.routes) * Len(service.notionals)

\* getRates: the getQuote of the current route and notional settles; a
\* failure is caught and the loop goes on.
RateSettles(o) ==
    /\ service.phase = "running"
    /\ ~RatesDone
    /\ service' = [service EXCEPT
          !.ratePos = @ + 1,
          !.rates = IF o.kind = "ok"
                    THEN Append(@,
                        [route |-> service.routes[RateRoute],
                         amountIn |-> service.notionals[RateNotional],
                         amountOut |-> o.value,
                         effectiveRate |-> calculateEffectiveRate(
                             service.notionals[RateNotional], o.value,
                             service.routes[RateRoute].srcDecimals,
                             service.routes[RateRoute].dstDecimals)])
                    ELSE @]
    /\ UNCHANGED <<rateCall, notService>>

LiquidityDone == service.routePos > Len(service.routes)

\* the entry pushed after both searches of a route returned
LiquidityEntrySwapped(route, threshold50, threshold100) ==
    [route |-> route,
     thresholds |-> << [maxAmountIn |-> threshold100.value, slippageBps |-> 50],
                       [maxAmountIn |-> threshold50.value, slippageBps |-> 100] >>]

LiquidityEntry(route, threshold50, threshold100) ==
    [route |-> route,
     thresholds |-> << [maxAmountIn |-> threshold50.value, slippageBps |-> 50],
                       [maxAmountIn |-> threshold100.value, slippageBps |-> 100] >>]

\* where the loop over the routes goes after a route's searches failed
AfterFailedRouteAborts(pos, n) == n + 1

AfterFailedRoute(pos, n) == pos + 1

\* getLiquidityDepth: the Promise.all of the two searches of the current
\* route settles; when either threw, the catch block logs and the loop goes
\* on with the next route.
RouteSettles(o50, o100) ==
    /\ service.phase = "running"
    /\ ~LiquidityDone
    /\ LET bothOk == o50.kind = "ok" /\ o100.kind = "ok"
       IN service' = [service EXCEPT
             !.routePos = IF bothOk THEN @ + 1
                          ELSE AfterFailedRoute(@, Len(service.routes)),
             !.liquidity = IF bothOk
                           THEN Append(@, LiquidityEntry(
                                    service.routes[service.routePos],
                                    o50, o100))
                           ELSE @,
             !.pushed = IF bothOk THEN Append(@, service.routePos) ELSE @,
             !.searched = Append(@, [o50 |-> o50, o100 |-> o100])]
    /\ UNCHANGED <<rateCall, notService>>

\* getListedAssets: the Promise.all of getTokens and getChains settles; when
\* either threw, the catch block returns an empty list.
AssetsSettle(tokenList, chainList) ==
    /\ service.phase = "running"
    /\ ~service.assetsDone
    /\ LET bothOk == tokenList.kind = "ok" /\ chainList.kind = "ok"
       IN service' = [service EXCEPT
             !.assetsDone = TRUE,
             !.assetsFailed = ~bothOk,
             !.listedAssets =
                 IF bothOk
                 THEN [i \in 1..Len(tokenList.value) |->
                         ToAsset(tokenList.value[i], chainList.value)]
                 ELSE <<>>]
    /\ UNCHANGED <<rateCall, notService>>

\* getSnapshot: its Promise.all resolves once the four parts have returned
\* (none of them can reject).
SnapshotResolves ==
    /\ service.phase = "running"
    /\ VolumesDone
    /\ RatesDone
    /\ LiquidityDone
    /\ service.assetsDone
    /\ service' = [service EXCEPT
          !.phase = "resolved",
          !.snapshot = [kind |-> "resolved",
                        volumes |-> [i \in 1..Len(service.volumes) |->
                                       [window |-> service.volumes[i].window,
                                        volumeUsd |-> service.volumes[i].volumeUsd]],
                        rates |-> service.rates,
                        liquidity |-> service.liquidity,
                        listedAssets |-> service.listedAssets]]
    /\ UNCHANGED <<rateCall, notService>>

(***************************************************************************)
(* StargateClient.getQuote in time (client/stargate.ts)                    *)
(*                                                                         *)
(* One getQuote call with its clock.  Each attempt arms a timer of         *)
(* timeoutMs that aborts the fetch; the finally block clears it.  A timer  *)
(* fires when it is due: the clock does not pass an armed timer.           *)
(***************************************************************************)
\* timeoutMs, in steps of the clock
TimeoutChoices == {2, 3}

\* MAX_RETRIES of the client in this specification
AttemptRetries == {0, 1, 2}

\* the clock stops here
MaxClock == 8

QuoteCalled(timeout, maxR) ==
    [pc |-> "acquire", timeoutMs |-> timeout, maxRetries |-> maxR,
     attempt |-> 0, clock |-> 0, timer |-> "none", timerDue |-> 0,
     failures |-> 0, aborts |-> 0, error |-> NoFailure]

\* new AbortController(); setTimeout(() => controller.abort(), timeoutMs);
\* fetch(...)
StartAttempt(q) ==
    [q EXCEPT !.pc = "fetch", !.timer = "armed",
              !.timerDue = q.clock + q.timeoutMs]

\* The function passed to withRetry throws e: the finally block clears the
\* timer, then withRetry's catch block decides.
AttemptThrows(q, e) ==
    [q EXCEPT !.timer = "cleared",
              !.failures = q.failures + 1,
              !.error = e,
              !.pc = IF GivesUp(q.attempt, q.maxRetries, "quote", e)
                     THEN "rejected" ELSE "sleep"]

\* controller.abort(): the pending await rejects with an AbortError
AbortedIgnored(q) == [q EXCEPT !.timer = "fired", !.aborts = q.aborts + 1]

Aborted(q) ==
    AttemptThrows([q EXCEPT !.aborts = q.aborts + 1],
                  [status |-> NoStatus, name |-> "AbortError"])

\* await this.rateLimiter.acquire() returns; withRetry makes the first attempt
QuoteAttemptAcquired ==
    /\ quoteAttempt.pc = "acquire"
    /\ quoteAttempt' = StartAttempt(quoteAttempt)
    /\ UNCHANGED <<limiters, scan, notClient>>

\* await fetch(...) resolves with the response's status line and headers
QuoteHeadersArrive(st) ==
    /\ quoteAttempt.pc = "fetch"
    /\ quoteAttempt' =
          IF st = 200
          THEN [quoteAttempt EXCEPT !.pc = "body"]
          ELSE AttemptThrows(quoteAttempt,
                             [status |-> st, name |-> "HttpError"])
    /\ UNCHANGED <<limiters, scan, notClient>>

\* await response.json() resolves; the schema, the quotes array
QuoteBodyArrives(kind) ==
    /\ quoteAttempt.pc = "body"
    /\ quoteAttempt' =
          IF kind = "quote"
          THEN [quoteAttempt EXCEPT !.pc = "resolved", !.timer = "cleared"]
          ELSE AttemptThrows(quoteAttempt,
                  ErrorOf([kind |-> kind, status |-> 200,
                           srcAmount |-> 0, dstAmount |-> 0]))
    /\ UNCHANGED <<limiters, scan, notClient>>

\* The timeout timer fires while the attempt awaits.
QuoteTimerFires ==
    /\ quoteAttempt.timer = "armed"
    /\ quoteAttempt.clock >= quoteAttempt.timerDue
    /\ quoteAttempt' = Aborted(quoteAttempt)
    /\ UNCHANGED <<limiters, scan, notClient>>

\* withRetry's backoff sleep ends: attempt++ and the next attempt
QuoteBackoffDone ==
    /\ quoteAttempt.pc = "sleep"
    /\ quoteAttempt' =
          StartAttempt([quoteAttempt EXCEPT !.attempt = quoteAttempt.attempt + 1])
    /\ UNCHANGED <<limiters, scan, notClient>>

QuoteClockTick ==
    /\ quoteAttempt.pc \notin {"resolved", "rejected"}
    /\ quoteAttempt.clock < MaxClock
    /\ ~(quoteAttempt.timer = "armed"
         /\ quoteAttempt.clock >= quoteAttempt.timerDue)
    /\ quoteAttempt' = [quoteAttempt EXCEPT !.clock = quoteAttempt.clock + 1]
    /\ UNCHANGED <<limiters, scan, notClient>>

QuoteAttemptStart ==
    \E timeout \in TimeoutChoices, maxR \in AttemptRetries :
        quoteAttempt = QuoteCalled(timeout, maxR)

QuoteAttemptUnused == quoteAttempt = QuoteCalled(0, 0)

(***************************************************************************)
(* The two RateLimiters of a DataProviderService (service.ts constructor)  *)
(*                                                                         *)
(* The constructor builds lzRateLimiter and stgRateLimiter and hands the   *)
(* first to the LzScanClient, the second to the StargateClient.  Every     *)
(* remote operation of a client starts with rateLimiter.acquire() on the   *)
(* limiter its client holds.                                               *)
(***************************************************************************)
LimiterNames == {"lz", "stg"}

\* The remote calls of the service: fetchMessages (volumes), getQuote for a
\* rate, getQuote for the 50 and for the 100 bps search, getTokens, getChains.
ServiceOps == {"fetchMessages", "rateQuote", "searchQuote50",
               "searchQuote100", "getTokens", "getChains"}

\* RATE_LIMIT_RPS_LZ and RATE_LIMIT_RPS_STG
LimiterRates == {1, 2}

\* how often one operation is called
MaxOpCalls == 1

\* the clock stops here
ServiceClockEnd == 2000

\* the limiter the client of an operation was built with
LimiterOfShared(op) == "stg"

LimiterOf(op) == IF op = "fetchMessages" THEN "lz" ELSE "stg"

\* new RateLimiter(requestsPerSecond) at time t
NewLimiter(R, t) ==
    [maxTokens |-> R, tokens |-> R * TokenScale, lastRefill |-> t]

ServiceBuilt(rLz, rStg) ==
    [clock |-> 0,
     lim |-> [l \in LimiterNames |->
                NewLimiter(IF l = "lz" THEN rLz ELSE rStg, 0)],
     pc |-> [op \in ServiceOps |-> "idle"],
     wakeAt |-> [op \in ServiceOps |-> 0],
     returns |-> [op \in ServiceOps |-> 0],   \* acquire() calls returned, per operation
     drawn |-> [l \in LimiterNames |-> 0]]    \* tokens taken, per limiter

\* One pass of acquire()'s loop body on the limiter of op's client.
ServiceLoopBody(op) ==
    LET l == LimiterOf(op)
        L == limiters.lim[l]
        tk == Refill(L.tokens, L.lastRefill, limiters.clock, L.maxTokens)
    IN  IF tk >= TokenScale
        THEN [limiters EXCEPT
                 !.lim[l] = [L EXCEPT !.tokens = tk - TokenScale,
                                      !.lastRefill = limiters.clock],
                 !.pc[op] = "idle",
                 !.wakeAt[op] = 0,
                 !.returns[op] = @ + 1,
                 !.drawn[l] = @ + 1]
        ELSE [limiters EXCEPT
                 !.lim[l] = [L EXCEPT !.tokens = tk,
                                      !.lastRefill = limiters.clock],
                 !.pc[op] = "sleeping",
                 !.wakeAt[op] = limiters.clock + WaitTime(tk, L.maxTokens)]

\* An operation is called and enters acquire().
ServiceAcquire(op) ==
    /\ limiters.pc[op] = "idle"
    /\ limiters.returns[op] < MaxOpCalls
    /\ limiters' = ServiceLoopBody(op)
    /\ UNCHANGED <<quoteAttempt, scan, notClient>>

\* A sleeping acquire()'s timer fires and its loop runs again.
ServiceWake(op) ==
    /\ limiters.pc[op] = "sleeping"
    /\ limiters.clock >= limiters.wakeAt[op]
    /\ limiters' = ServiceLoopBody(op)
    /\ UNCHANGED <<quoteAttempt, scan, notClient>>

\* Time passes until the next sleeping acquire() is due.
ServiceTick ==
    LET sleeping == { op \in ServiceOps : limiters.pc[op] = "sleeping" }
        due == { limiters.wakeAt[op] : op \in sleeping }
    IN  /\ sleeping # {}
        /\ \A t \in due : t > limiters.clock
        /\ \E t \in due :
              /\ \A u \in due : t <= u
              /\ t <= ServiceClockEnd
              /\ limiters' = [limiters EXCEPT !.clock = t]
    /\ UNCHANGED <<quoteAttempt, scan, notClient>>

LimitersStart ==
    \E rLz \in LimiterRates, rStg \in LimiterRates :
        limiters = ServiceBuilt(rLz, rStg)

LimitersUnused == limiters = ServiceBuilt(0, 0)

(***************************************************************************)
(* LzScanClient.fetchAllMessages (client/lzScan.ts)                        *)
(*                                                                         *)
(* The server is a function from the nextToken parameter of a request to   *)
(* the page it answers with; any attempt may also fail.                    *)
(***************************************************************************)
\* response.nextToken when the field is missing (undefined)
Absent == "<absent>"

\* a JavaScript string or undefined used as a condition
Truthy(tok) == tok # Absent /\ tok # ""

\* if (params.nextToken) url.searchParams.set("nextToken", ...): the page a
\* request asks for
RequestKey(tok) == IF Truthy(tok) THEN tok ELSE "first"

Page(d, n) == [data |-> d, nextToken |-> n]

ScanServers ==
    { [first |-> Page(<<1>>, Absent), t1 |-> Page(<<>>, Absent),
       t2 |-> Page(<<>>, Absent)],
      [first |-> Page(<<1, 2>>, "t1"), t1 |-> Page(<<3>>, Absent),
       t2 |-> Page(<<>>, Absent)],
      [first |-> Page(<<1>>, "t1"), t1 |-> Page(<<>>, "t2"),
       t2 |-> Page(<<2>>, Absent)],
      [first |-> Page(<<1>>, "t2"), t1 |-> Page(<<3>>, Absent),
       t2 |-> Page(<<2>>, "t1")],
      [first |-> Page(<<1>>, ""), t1 |-> Page(<<2>>, Absent),
       t2 |-> Page(<<>>, Absent)],
      [first |-> Page(<<1>>, "t1"), t1 |-> Page(<<2>>, "t1"),
       t2 |-> Page(<<>>, Absent)],
      [first |-> Page(<<1>>, "t1"), t1 |-> Page(<<2>>, "t2"),
       t2 |-> Page(<<3>>, "t1")] }

\* MAX_RETRIES of the LzScanClient
ScanRetries == {0, 1}

\* fetchMessages calls one fetchAllMessages may make here
MaxPageCalls == 4

NoResult == [kind |-> "none", value |-> <<>>]

\* fetchAllMessages has been called: allMessages is empty, nextToken is
\* undefined and the first fetchMessages waits in rateLimiter.acquire().
\* requested lists the nextToken of every fetchMessages call made.
ScanCalled(server, maxR) ==
    [server |-> server, maxRetries |-> maxR, pc |-> "acquire",
     nextToken |-> Absent, allMessages |-> <<>>, attempt |-> 0,
     acquires |-> 0, requests |-> 0, requested |-> <<>>,
     error |-> NoFailure, result |-> NoResult]

\* while (nextToken)
LoopsOnNever(tok) == FALSE

LoopsOn(tok) == Truthy(tok)

\* fetchMessages: rateLimiter.acquire() returns, withRetry makes its first
\* fetch
ScanAcquired ==
    /\ scan.pc = "acquire"
    /\ Len(scan.requested) < MaxPageCalls
    /\ scan' = [scan EXCEPT !.pc = "fetch",
                            !.attempt = 0,
                            !.acquires = @ + 1,
                            !.requests = @ + 1,
                            !.requested = Append(@, scan.nextToken)]
    /\ UNCHANGED <<quoteAttempt, limiters, notClient>>

\* A fetch of fetchMessages settles: with the page, and the do-while loop
\* goes round or fetchAllMessages returns; or with a failure, and withRetry
\* sleeps for a retry or fetchAllMessages rejects.
ScanFetchSettles(kind, st) ==
    LET page == scan.server[RequestKey(scan.nextToken)]
        e == ErrorOf([kind |-> kind, status |-> st,
                      srcAmount |-> 0, dstAmount |-> 0])
    IN
    /\ scan.pc = "fetch"
    /\ scan' =
          IF kind = "page"
          THEN IF LoopsOn(page.nextToken)
               THEN [scan EXCEPT !.allMessages = @ \o page.data,
                                 !.nextToken = page.nextToken,
                                 !.pc = "acquire"]
               ELSE [scan EXCEPT !.allMessages = @ \o page.data,
                                 !.nextToken = page.nextToken,
                                 !.pc = "returned",
                                 !.result = [kind |-> "value",
                                             value |-> scan.allMessages \o page.data]]
          ELSE IF GivesUp(scan.attempt, scan.maxRetries, "quote", e)
               THEN [scan EXCEPT !.pc = "rejected",
                                 !.error = e,
                                 !.result = [kind |-> "error", value |-> <<>>]]
               ELSE [scan EXCEPT !.pc = "sleep"]
    /\ UNCHANGED <<quoteAttempt, limiters, notClient>>

\* withRetry's backoff sleep ends: attempt++ and the next fetch
ScanBackoffDone ==
    /\ scan.pc = "sleep"
    /\ scan' = [scan EXCEPT !.pc = "fetch",
                            !.attempt = @ + 1,
                            !.requests = @ + 1]
    /\ UNCHANGED <<quoteAttempt, limiters, notClient>>

ScanStart ==
    \E server \in ScanServers, maxR \in ScanRetries :
        scan = ScanCalled(server, maxR)

ScanUnused ==
    scan = ScanCalled([first |-> Page(<<>>, Absent), t1 |-> Page(<<>>, Absent),
                       t2 |-> Page(<<>>, Absent)], 0)

ClientUnused == QuoteAttemptUnused /\ LimitersUnused /\ ScanUnused

(***************************************************************************)
(* The specifications                                                      *)
(***************************************************************************)
\* The wrapper's variables in a specification that does not run it.
RetryUnused ==
    /\ maxRetries = 0
    /\ baseDelayMs = 0
    /\ maxDelayMs = 0
    /\ shouldRetry = "default"
    /\ rpc = "returned"
    /\ attempt = 0
    /\ lastError = NoError
    /\ calls = 0
    /\ failures = 0
    /\ sleepCount = 0
    /\ jitter = 0
    /\ delay = 0
    /\ slept = 0
    /\ result = [kind |-> "none", error |-> NoError]

\* The limiter's variables in a specification that does not run it.
LimiterUnused ==
    /\ now = 0
    /\ maxTokens = 0
    /\ tokens = 0
    /\ lastRefill = 0
    /\ pc = [c \in Callers |-> "idle"]
    /\ wakeAt = [c \in Callers |-> 0]
    /\ returned = 0

RetryInit ==
    /\ RetryStart
    /\ LimiterUnused
    /\ SearchUnused
    /\ ServiceUnused
    /\ ClientUnused

RetryNext ==
    \/ RetryCallOk
    \/ \E st \in Statuses : RetryCallFail(st)
    \/ RetrySleepDone

SpecRetry == RetryInit /\ [][RetryNext]_vars

LimiterInit ==
    /\ LimiterStart
    /\ RetryUnused
    /\ SearchUnused
    /\ ServiceUnused
    /\ ClientUnused

SpecLimiter == LimiterInit /\ [][LimiterNext]_vars

\* The event loop runs every timer that is due, and time advances.
SpecLimiterFair ==
    /\ LimiterInit
    /\ [][FairNext]_vars
    /\ \A c \in Callers : WF_vars(Wake(c))
    /\ WF_vars(TickToWake)

BurstInit ==
    /\ BurstStart
    /\ RetryUnused
    /\ SearchUnused
    /\ ServiceUnused
    /\ ClientUnused

SpecBurst == BurstInit /\ [][BurstNext]_vars

SearchInit ==
    /\ SearchStart
    /\ LimiterUnused
    /\ RetryUnused
    /\ ServiceUnused
    /\ ClientUnused

SearchNext ==
    \/ \E s \in Searches : GetQuoteAcquired(s)
    \/ \E s \in Searches : GetQuoteResponse(s)
    \/ \E s \in Searches : GetQuoteRetry(s)

SpecSearch == SearchInit /\ [][SearchNext]_vars

\* Every probe settles: acquire() returns, a backoff sleep ends, and no
\* fetch stays in flight for ever (it resolves or rejects, at the latest when
\* the AbortController's timeout fires).
SpecSearchFair ==
    /\ SearchInit
    /\ [][SearchNext]_vars
    /\ \A s \in Searches :
          /\ WF_vars(GetQuoteAcquired(s))
          /\ WF_vars(GetQuoteRetry(s))
          /\ []<>(search[s].pc # "fetch")

\* Two findMaxAmountAtSlippage calls running concurrently on one client, as
\* getLiquidityDepth's Promise.all starts them, over a few of the remotes.
ConcurrentSearches == {1, 2}

ConcurrentRemotes ==
    { [curve |-> c, quotesUpTo |-> NeverAbove, fault |-> NoFault] :
        c \in DipCurves }
    \cup
    { rm \in Remotes :
        /\ rm.curve \in { [zeroUpTo |-> 30000, fiftyUpTo |-> 500000,
                           hundredUpTo |-> 800000,
                              dipFrom |-> 0, dipTo |-> 0],
                          [zeroUpTo |-> 0, fiftyUpTo |-> NeverAbove,
                           hundredUpTo |-> NeverAbove,
                              dipFrom |-> 0, dipTo |-> 0] }
        /\ rm.quotesUpTo \in {700000, NeverAbove}
        /\ \/ rm.fault = NoFault
           \/ /\ rm.fault.faultFrom = 400000
              /\ \/ rm.fault.faultKind = "timeout"
                 \/ rm.fault.faultStatus = 500 /\ rm.fault.faultAttempts = 1 }

ConcurrentInit ==
    /\ remote \in ConcurrentRemotes
    /\ clientMaxRetries = 1
    /\ acquires = 0
    /\ requests = 0
    /\ \E t1 \in Targets, t2 \in Targets, dec \in DecimalsSet :
          search = [s \in ConcurrentSearches |->
                      SearchCalled(IF s = 1 THEN t1 ELSE t2, dec)]
    /\ LimiterUnused
    /\ RetryUnused
    /\ ServiceUnused
    /\ ClientUnused

ConcurrentNext ==
    \/ \E s \in ConcurrentSearches : GetQuoteAcquired(s)
    \/ \E s \in ConcurrentSearches : GetQuoteResponse(s)
    \/ \E s \in ConcurrentSearches : GetQuoteRetry(s)

SpecConcurrent == ConcurrentInit /\ [][ConcurrentNext]_vars

\* calculateEffectiveRate applied to every pair of amounts and decimals.
RateInit ==
    /\ RateStart
    /\ SnapshotUnused
    /\ ClientUnused
    /\ LimiterUnused
    /\ RetryUnused
    /\ SearchUnused

RateNext == RateReturns

SpecRate == RateInit /\ [][RateNext]_vars

\* One getSnapshot call of a DataProviderService, its remote calls settling
\* in every order and in every way.
SnapshotInit ==
    /\ ServiceUnused
    /\ ClientUnused
    /\ LimiterUnused
    /\ RetryUnused
    /\ SearchUnused

SnapshotNext ==
    \/ \E routes \in RouteLists, notionals \in NotionalLists,
          windowParam \in WindowParams :
            GetSnapshot(routes, notionals, windowParam)
    \/ \E i \in 1..Len(service.volumes), o \in VolumeOutcomes :
            VolumeSettles(i, o)
    \/ \E o \in QuoteOutcomes : RateSettles(o)
    \/ \E o50 \in SearchOutcomes, o100 \in SearchOutcomes :
            RouteSettles(o50, o100)
    \/ \E tokenList \in TokensOutcomes, chainList \in ChainsOutcomes :
            AssetsSettle(tokenList, chainList)
    \/ SnapshotResolves

SpecSnapshot == SnapshotInit /\ [][SnapshotNext]_vars

\* One getQuote call whose responses arrive at any time or never.
TimeoutInit ==
    /\ QuoteAttemptStart
    /\ LimitersUnused
    /\ ScanUnused
    /\ LimiterUnused
    /\ RetryUnused
    /\ SearchUnused
    /\ ServiceUnused

TimeoutNext ==
    \/ QuoteAttemptAcquired
    \/ \E st \in {200, 404, 500} : QuoteHeadersArrive(st)
    \/ \E kind \in {"quote", "malformed", "empty"} : QuoteBodyArrives(kind)
    \/ QuoteTimerFires
    \/ QuoteBackoffDone
    \/ QuoteClockTick

SpecTimeout == TimeoutInit /\ [][TimeoutNext]_vars

\* The remote operations of one DataProviderService, called in any order.
LimitersInit ==
    /\ LimitersStart
    /\ QuoteAttemptUnused
    /\ ScanUnused
    /\ LimiterUnused
    /\ RetryUnused
    /\ SearchUnused
    /\ ServiceUnused

LimitersNext ==
    \/ \E op \in ServiceOps : ServiceAcquire(op)
    \/ \E op \in ServiceOps : ServiceWake(op)
    \/ ServiceTick

SpecLimiters == LimitersInit /\ [][LimitersNext]_vars

\* One fetchAllMessages call against each of the servers.
ScanInit ==
    /\ ScanStart
    /\ QuoteAttemptUnused
    /\ LimitersUnused
    /\ LimiterUnused
    /\ RetryUnused
    /\ SearchUnused
    /\ ServiceUnused

ScanSettles ==
    \/ ScanFetchSettles("page", 200)
    \/ \E st \in {404, 500} : ScanFetchSettles("status", st)
    \/ ScanFetchSettles("malformed", 200)
    \/ ScanFetchSettles("timeout", 0)

ScanNext ==
    \/ ScanAcquired
    \/ ScanSettles
    \/ ScanBackoffDone

SpecScan == ScanInit /\ [][ScanNext]_vars

\* acquire() returns, a backoff sleep ends and a fetch settles (at the
\* latest when its timeout aborts it).
SpecScanFair ==
    /\ ScanInit
    /\ [][ScanNext]_vars
    /\ WF_vars(ScanAcquired)
    /\ WF_vars(ScanSettles)
    /\ WF_vars(ScanBackoffDone)

(***************************************************************************)
(* C1: the number of acquire() calls that have returned by elapsed time t  *)
(* never exceeds R + R*t/1000 (a burst of R, then R per second).           *)
(***************************************************************************)
C1_ThroughputBound ==
    returned * TokenScale <= maxTokens * TokenScale + maxTokens * now

\* An acquire() beyond the initial burst has returned after waiting.
C1_Witness ==
    /\ returned > maxTokens
    /\ now > 0

(***************************************************************************)
(* C3: an operation that fails k <= maxRetries times with retryable        *)
(* failures and then succeeds is invoked exactly k+1 times and withRetry   *)
(* returns its value; one that always fails with retryable failures is     *)
(* invoked exactly maxRetries+1 times and the final attempt's error is     *)
(* re-raised unchanged.                                                    *)
(***************************************************************************)
C3_AttemptCount ==
    /\ rpc = "returned" =>
          /\ failures <= maxRetries
          /\ calls = failures + 1
          /\ result = [kind |-> "value", error |-> NoError]
    /\ (rpc = "threw" /\ ShouldRetry(shouldRetry, lastError)) =>
          /\ failures = maxRetries + 1
          /\ calls = maxRetries + 1
          /\ lastError.id = calls
          /\ result = [kind |-> "error", error |-> lastError]

\* The operation failed maxRetries = 2 times and then succeeded.
C3_Witness ==
    /\ rpc = "returned"
    /\ maxRetries = 2
    /\ failures = 2
    /\ calls = 3

(***************************************************************************)
(* C4: with the default predicate a failure that carries a status code is  *)
(* retried if and only if the status is 429 or >= 500, and a failure       *)
(* without a status code is always retried (while attempts remain).        *)
(***************************************************************************)
C4_DefaultPredicate ==
    LET byRule == \/ lastError.status = NoStatus
                  \/ lastError.status = 429
                  \/ lastError.status >= 500
    IN  shouldRetry = "default" =>
          /\ rpc = "sleep" => byRule
          /\ (rpc = "threw" /\ attempt < maxRetries) => ~byRule

\* A 500 is being retried under the default predicate.
C4_Witness ==
    /\ shouldRetry = "default"
    /\ rpc = "sleep"
    /\ lastError.status = 500

(***************************************************************************)
(* C5: when shouldRetry returns false for a failure, withRetry re-raises   *)
(* that same error without sleeping and without invoking the operation     *)
(* again; a non-retryable first failure means exactly one attempt.         *)
(***************************************************************************)
C5_NoRetryWhenPredicateFalse ==
    (failures > 0 /\ ~ShouldRetry(shouldRetry, lastError)) =>
        /\ rpc = "threw"
        /\ result = [kind |-> "error", error |-> lastError]
        /\ calls = lastError.id
        /\ sleepCount = calls - 1
        /\ attempt = calls - 1

\* A 404 under the default predicate: one attempt, no sleep, though three
\* retries were allowed.
C5_Witness ==
    /\ shouldRetry = "default"
    /\ maxRetries = 3
    /\ lastError.status = 404
    /\ rpc = "threw"
    /\ calls = 1
    /\ sleepCount = 0

(***************************************************************************)
(* C6: the delay slept after failed attempt n is                           *)
(* min(baseDelay * 2^n + jitter, maxDelay) with 0 <= jitter < baseDelay,   *)
(* so 0 <= delay <= maxDelay, also when maxDelay < baseDelay.              *)
(***************************************************************************)
C6_DelayBounded ==
    rpc = "sleep" =>
        LET uncapped == baseDelayMs * Pow2(attempt) + jitter IN
        /\ 0 <= jitter
        /\ jitter < baseDelayMs
        /\ delay = IF uncapped <= maxDelayMs THEN uncapped ELSE maxDelayMs
        /\ 0 <= delay
        /\ delay <= maxDelayMs

\* The cap is lower than the base (1000 against 500) and the second sleep is
\* capped.
C6_Witness ==
    /\ rpc = "sleep"
    /\ baseDelayMs = 1000
    /\ maxDelayMs = 500
    /\ attempt = 1
    /\ delay = 500

(***************************************************************************)
(* C2: every request attempt of a quote probe, first or retry, is preceded *)
(* by its own RateLimiter.acquire(): the HTTP requests a StargateClient    *)
(* has sent never outnumber the tokens taken from its limiter.             *)
(***************************************************************************)
C2_RequestsWithinTokens == requests <= acquires

(***************************************************************************)
(* C7: when findMaxAmountAtSlippage returns, slippageBps <= targetBps and  *)
(* it is the slippage measured at the returned maxSrcAmount, or it is 0    *)
(* with maxSrcAmount one whole unit when no bisection probe was accepted.  *)
(***************************************************************************)
C7_ReturnedWithinTarget ==
    \A s \in DOMAIN search :
        LET f == search[s]
            within(k) == /\ f.samples[k].slippageBps # NaN
                         /\ f.samples[k].slippageBps <= f.targetBps
        IN  f.pc = "returned" =>
              /\ f.bestSlippage # NaN
              /\ f.bestSlippage <= f.targetBps
              /\ \/ \E k \in 2..Len(f.samples) :
                       /\ f.samples[k].srcAmount = f.bestAmount
                       /\ f.samples[k].slippageBps = f.bestSlippage
                 \/ /\ f.bestAmount = Pow10(f.srcDecimals)
                    /\ f.bestSlippage = 0
                    /\ \A k \in 2..Len(f.samples) : ~within(k)

\* A search returned an amount above one unit measured at exactly its target.
C7_Witness ==
    \E s \in DOMAIN search :
        /\ search[s].pc = "returned"
        /\ search[s].targetBps = 50
        /\ search[s].bestSlippage = 50
        /\ search[s].bestAmount > Pow10(search[s].srcDecimals)

(***************************************************************************)
(* C8: a bisection probe that fails with a transport or rate-limit failure *)
(* (status 429 or >= 500 after all retries, or a timeout) aborts the       *)
(* search with that error; a failed probe is taken as 'amount too large'   *)
(* (hi = mid - 1) only for the domain 'no quote' condition.                *)
(***************************************************************************)
C8_OnlyNoQuoteLowersHi ==
    \A s \in DOMAIN search :
        search[s].swallowed.name \in {"none", "NoQuotes"}

(***************************************************************************)
(* C9: if the baseline probe fails for any reason after retries, the       *)
(* search issues no bisection probe, returns nothing and fails with the    *)
(* error of the last attempt.                                              *)
(***************************************************************************)
C9_BaselineFailureAborts ==
    \A s \in DOMAIN search :
        LET f == search[s] IN
        (f.phase = "baseline" /\ f.pc \in {"returned", "failed"}) =>
            /\ f.pc = "failed"
            /\ f.error # NoFailure
            /\ f.error = ErrorOf(Response(remote, Pow10(f.srcDecimals), f.attempt))
            /\ f.quoteCalls = 1
            /\ f.samples = <<>>
            /\ f.bestAmount = 0
            /\ f.i = 0

\* The baseline probe got a 500 on every attempt and the search failed with
\* it once the retries were used up.
C9_Witness ==
    \E s \in DOMAIN search :
        /\ search[s].pc = "failed"
        /\ search[s].error = [status |-> 500, name |-> "HttpError"]
        /\ search[s].attempt = clientMaxRetries
        /\ requests = clientMaxRetries + 1

(***************************************************************************)
(* C10: a probe whose slippage equals targetBps is accepted; for a         *)
(* monotonically worsening quote function with baseline rate 1.0 and rate  *)
(* 0.995 at an amount X in [1 unit, 1,000,000 units], the amount returned  *)
(* for target 50 is >= X.                                                  *)
(*                                                                         *)
(* The remote's curve is such a function when no fault is injected, its    *)
(* tiers are ordered, the one-for-one tier reaches 20,000 (beyond it the   *)
(* measured slippage of the 0.5% and 1% tiers is exactly 50 and 100) and   *)
(* X = fiftyUpTo is a multiple of 200 that is quoted.                      *)
(***************************************************************************)
BoundaryAt(f) ==
    LET X == remote.curve.fiftyUpTo IN
    /\ f.phase = "bisect"
    /\ f.targetBps = 50
    /\ remote.fault = NoFault
    /\ remote.curve.zeroUpTo >= 20000
    /\ remote.curve.zeroUpTo < X
    /\ X <= remote.curve.hundredUpTo
    /\ X % 200 = 0
    /\ X <= remote.quotesUpTo
    /\ Pow10(f.srcDecimals) <= X
    /\ X <= UnitsCeiling * Pow10(f.srcDecimals)
    /\ f.baseRate = [num |-> 1, den |-> 1]

C11_ReturnedWithinQuoted ==
    \A s \in DOMAIN search :
        LET f == search[s] IN
        ( /\ f.pc = "returned"
          /\ remote.fault = NoFault
          /\ remote.quotesUpTo >= Pow10(f.srcDecimals) ) =>
            f.bestAmount <= remote.quotesUpTo

\* With no slippage anywhere and quotes up to T = 700000 only, the search
\* discarded 'no quote' probes and returned T itself.
C11_Witness ==
    \E s \in DOMAIN search :
        /\ search[s].pc = "returned"
        /\ remote.fault = NoFault
        /\ remote.quotesUpTo = 700000
        /\ search[s].swallowed.name = "NoQuotes"
        /\ search[s].bestAmount = remote.quotesUpTo

(***************************************************************************)
(* C12: a search issues at most 24 bisection probes after the baseline (at *)
(* most 25 getQuote calls), stops as soon as lo > hi, and always           *)
(* terminates (returns or fails) provided each probe terminates.           *)
(***************************************************************************)
C12_BoundedAndTerminates ==
    /\ [](\A s \in DOMAIN search :
            LET f == search[s] IN
            /\ f.i <= MaxIterations
            /\ f.quoteCalls <= MaxIterations + 1
            /\ (f.phase = "bisect" /\ f.pc \in {"acquire", "fetch", "sleep"}) =>
                  /\ f.i < MaxIterations
                  /\ f.lo <= f.hi
                  /\ f.quoteCalls = f.i + 2
            /\ f.pc = "returned" =>
                  /\ f.i = MaxIterations \/ f.lo > f.hi
                  /\ f.quoteCalls = f.i + 1)
    /\ <>(\A s \in DOMAIN search : search[s].pc \in {"returned", "failed"})

\* A search used all 24 steps (25 getQuote calls) with lo <= hi still.
C12_Witness ==
    \E s \in DOMAIN search :
        /\ search[s].pc = "returned"
        /\ search[s].i = MaxIterations
        /\ search[s].quoteCalls = MaxIterations + 1
        /\ search[s].lo <= search[s].hi

(***************************************************************************)
(* C13: within one search probes are strictly sequential: at most one      *)
(* probe is in flight, a probe's amount mid is computed from lo and hi     *)
(* after the previous probe's outcome has been applied to them, and the    *)
(* baseline probe completes before the first bisection probe.              *)
(***************************************************************************)
C13_ProbesSequential ==
    \A s \in DOMAIN search :
        LET f == search[s]
            settled == f.i + (IF f.phase = "bisect" THEN 1 ELSE 0)
            inFlight == f.quoteCalls - settled
            waiting == f.pc \in {"acquire", "fetch", "sleep"}
        IN
        /\ inFlight \in {0, 1}
        /\ inFlight = 1 <=> (waiting \/ (f.phase = "baseline" /\ f.pc = "failed"))
        /\ f.phase = "baseline" =>
              /\ f.samples = <<>>
              /\ f.i = 0
              /\ f.quoteCalls = 1
              /\ f.srcAmount = Pow10(f.srcDecimals)
        /\ f.phase = "bisect" =>
              /\ Len(f.samples) >= 1
              /\ Len(f.samples) <= f.i + 1
              /\ f.samples[1].srcAmount = Pow10(f.srcDecimals)
        /\ (f.phase = "bisect" /\ waiting) =>
              /\ f.srcAmount = f.mid
              /\ f.mid = (f.lo + f.hi) \div 2
              /\ f.lo <= f.mid
              /\ f.mid <= f.hi
        /\ \A k \in 2..Len(f.samples) :
              \/ f.samples[k].srcAmount < f.lo
              \/ f.samples[k].srcAmount > f.hi

\* The fourth bisection probe is in flight, three outcomes (two of them
\* quotes) already applied.
C13_Witness ==
    \E s \in DOMAIN search :
        /\ search[s].phase = "bisect"
        /\ search[s].pc = "fetch"
        /\ search[s].i = 3
        /\ Len(search[s].samples) = 3
        /\ search[s].swallowed # NoFailure

(***************************************************************************)
(* C14: two invocations of findMaxAmountAtSlippage with the same           *)
(* parameters against the same deterministic quote function settle with    *)
(* identical maxSrcAmount, slippageBps and samples, however their steps    *)
(* (limiter waits, backoff sleeps, fetches) interleave and whether one     *)
(* runs before, after or during the other.                                 *)
(***************************************************************************)
C14_Deterministic ==
    \A s \in DOMAIN search : \A t \in DOMAIN search :
        LET f == search[s]
            g == search[t]
        IN
        ( /\ f.pc \in {"returned", "failed"}
          /\ g.pc \in {"returned", "failed"}
          /\ f.targetBps = g.targetBps
          /\ f.srcDecimals = g.srcDecimals
          /\ f.dstDecimals = g.dstDecimals ) =>
            /\ f.pc = g.pc
            /\ f.bestAmount = g.bestAmount
            /\ f.bestSlippage = g.bestSlippage
            /\ f.samples = g.samples
            /\ f.error = g.error

\* Two searches for the same target both returned an amount above one unit,
\* after at least one request had been retried.
C14_Witness ==
    /\ DOMAIN search = ConcurrentSearches
    /\ \A s \in DOMAIN search :
          /\ search[s].pc = "returned"
          /\ search[s].targetBps = 50
          /\ search[s].bestAmount > Pow10(search[s].srcDecimals)
    /\ requests > acquires

(***************************************************************************)
(* C15: on a fresh limiter of capacity R the first R acquire() calls       *)
(* return without sleeping, and the (R+1)-th returns only after 1/R        *)
(* seconds (1000/R ms) have elapsed since the start.                       *)
(***************************************************************************)
C15_BurstThenInterval ==
    /\ (\E c \in DOMAIN pc : pc[c] = "sleeping") => returned >= maxTokens
    /\ returned > maxTokens => now * maxTokens >= TokenScale
    /\ \A c \in DOMAIN pc :
          pc[c] = "sleeping" => wakeAt[c] * maxTokens >= TokenScale

\* The (R+1)-th acquire() returned exactly Math.ceil(1000 / R) ms after the
\* start.
C15_Witness ==
    /\ returned = maxTokens + 1
    /\ now = CeilDiv(TokenScale, maxTokens)

C17_TokensCapped ==
    LET capacity == maxTokens * TokenScale
        refilled == Refill(tokens, lastRefill, now, maxTokens)
    IN
    /\ tokens <= capacity
    /\ refilled >= tokens
    /\ refilled <= capacity
    /\ now - lastRefill >= 1000 => refilled = capacity

\* A drained bucket that has been idle for a second or more.
C17_Witness ==
    /\ tokens = 0
    /\ now - lastRefill >= 1000

(***************************************************************************)
(* C18: concurrent acquire() calls are safe: every acquire() that returns  *)
(* has deducted exactly one whole token that the bucket held at that       *)
(* moment, a pass that does not return deducts nothing, and tokens never   *)
(* drops below 0.                                                          *)
(***************************************************************************)
C18_OneTokenPerReturn ==
    [][ LET refilled == Refill(tokens, lastRefill, now, maxTokens) IN
        /\ returned' \in {returned, returned + 1}
        /\ returned' = returned + 1 =>
              /\ refilled >= TokenScale
              /\ tokens' = refilled - TokenScale
        /\ (returned' = returned /\ now' = now) =>
              /\ refilled < TokenScale
              /\ tokens' = refilled
        /\ now' # now => tokens' = tokens
        /\ tokens' >= 0 ]_vars

\* Two callers are asleep at once while an acquire() beyond the initial
\* burst has already returned.
C18_Witness ==
    /\ Cardinality({c \in DOMAIN pc : pc[c] = "sleeping"}) >= 2
    /\ returned > maxTokens

(***************************************************************************)
(* C19: with finitely many outstanding acquire() calls and time advancing, *)
(* every acquire() call eventually returns (no caller waits for ever).     *)
(***************************************************************************)
C19_EveryAcquireReturns ==
    \A c \in Callers : (pc[c] = "sleeping") ~> (pc[c] = "idle")

\* A caller is asleep after the initial burst has been used up and more.
C19_Witness ==
    /\ \E c \in DOMAIN pc : pc[c] = "sleeping" /\ wakeAt[c] > now
    /\ now > 0
    /\ returned > maxTokens

(***************************************************************************)
(* C20: fractional tokens are preserved: after the bucket is drained to 0  *)
(* and w ms pass with no acquire, the next acquire() returns at once if    *)
(* w * R / 1000 >= 1 and otherwise sleeps only for the remaining           *)
(* shortfall, ceil((1 - w * R / 1000) / (R / 1000)) ms.                    *)
(***************************************************************************)
C20_FractionKept ==
    [][ (now' = now /\ tokens = 0) =>
          LET w == now - lastRefill
              gained == w * maxTokens
          IN  IF gained >= TokenScale
              THEN returned' = returned + 1
              ELSE /\ returned' = returned
                   /\ tokens' = gained
                   /\ \E c \in DOMAIN pc :
                         /\ pc'[c] = "sleeping"
                         /\ wakeAt'[c] # wakeAt[c]
                         /\ wakeAt'[c] =
                              now + CeilDiv(TokenScale - gained, maxTokens) ]_vars

\* R = 3: the bucket was drained, 200 ms passed, and the next acquire()
\* found 0.6 token and went to sleep for 134 ms.
C20_Witness ==
    /\ maxTokens = 3
    /\ returned = 3
    /\ now = 200
    /\ lastRefill = now
    /\ tokens = 600
    /\ \E c \in DOMAIN pc : pc[c] = "sleeping" /\ wakeAt[c] = now + 134

(***************************************************************************)
(* C26: when a bisection probe fails with the domain 'no quote' condition  *)
(* the search sets hi = mid - 1, leaves lo, bestAmount and bestSlippage    *)
(* unchanged, records no Sample and goes on with the next step; the        *)
(* failure is not surfaced to the caller.                                  *)
(***************************************************************************)
C26_NoQuoteLowersHiOnly ==
    [][ \A s \in DOMAIN search :
          LET f == search[s]
              g == search'[s]
          IN
          ( /\ f.phase = "bisect"
            /\ f.pc = "fetch"
            /\ g # f
            /\ Response(remote, f.srcAmount, f.attempt).kind = "empty" ) =>
              /\ g.hi = f.mid - 1
              /\ g.lo = f.lo
              /\ g.bestAmount = f.bestAmount
              /\ g.bestSlippage = f.bestSlippage
              /\ g.samples = f.samples
              /\ g.i = f.i + 1
              /\ g.error = NoFailure
              /\ g.pc \in {"acquire", "returned"}
              /\ g.pc = "acquire" <=> (g.i < MaxIterations /\ g.lo <= g.hi) ]_vars

\* The first bisection probe met 'no quote' and the second is being issued.
C26_Witness ==
    \E s \in DOMAIN search :
        /\ search[s].phase = "bisect"
        /\ search[s].pc = "acquire"
        /\ search[s].i = 1
        /\ Len(search[s].samples) = 1
        /\ search[s].swallowed.name = "NoQuotes"
        /\ search[s].hi < UnitsCeiling * Pow10(search[s].srcDecimals)

(***************************************************************************)
(* C27: throughout a search lo never decreases, hi never increases, every  *)
(* probed mid satisfies lo <= mid <= hi, the interval [lo, hi] strictly    *)
(* shrinks at every step, and bestAmount = max(one unit, lo - 1) with      *)
(* one unit <= bestAmount <= 1,000,000 units.                              *)
(***************************************************************************)
C27_SearchState ==
    [][ \A s \in DOMAIN search :
          LET f == search[s]
              g == search'[s]
              oneUnit == Pow10(g.srcDecimals)
          IN
          /\ (f.phase = "bisect" /\ g # f /\ f.pc = "fetch" /\ g.pc # "sleep") =>
                /\ g.lo >= f.lo
                /\ g.hi <= f.hi
                /\ f.lo <= f.mid
                /\ f.mid <= f.hi
                /\ g.hi - g.lo < f.hi - f.lo
                /\ g.i = f.i + 1
          /\ (f.phase = "bisect" /\ g # f /\ ~(f.pc = "fetch" /\ g.pc # "sleep")) =>
                /\ g.lo = f.lo
                /\ g.hi = f.hi
                /\ g.bestAmount = f.bestAmount
          /\ g.phase = "bisect" =>
                /\ g.bestAmount = Max(oneUnit, g.lo - 1)
                /\ oneUnit <= g.bestAmount
                /\ g.bestAmount <= UnitsCeiling * oneUnit
                /\ g.pc \in {"acquire", "fetch", "sleep"} =>
                      /\ g.lo <= g.mid
                      /\ g.mid <= g.hi ]_vars

\* A search ended with the interval empty after raising lo and lowering hi.
C27_Witness ==
    \E s \in DOMAIN search :
        LET f == search[s] IN
        /\ f.pc = "returned"
        /\ f.lo > f.hi
        /\ f.lo > Pow10(f.srcDecimals)
        /\ f.hi < UnitsCeiling * Pow10(f.srcDecimals)

(***************************************************************************)
(* A monotonically worsening quote function, as the remote provides one:   *)
(* no fault, the tiers ordered, and the one-for-one tier reaching 20,000,  *)
(* from where on the slippage measured in the 0.5% and 1% tiers is exactly *)
(* 50 and 100 (and 10,000 beyond them).  Its largest acceptable amount in  *)
(* [1 unit, 1,000,000 units] is where the target's tier, the quoted range  *)
(* or the search range ends.                                               *)
(***************************************************************************)
MonotoneFor(f) ==
    /\ f.phase = "bisect"
    /\ remote.fault = NoFault
    /\ remote.curve.zeroUpTo >= 20000
    /\ remote.curve.zeroUpTo <= remote.curve.fiftyUpTo
    /\ remote.curve.fiftyUpTo <= remote.curve.hundredUpTo

LargestAcceptable(f) ==
    LET tier == IF f.targetBps >= 100 THEN remote.curve.hundredUpTo
                ELSE remote.curve.fiftyUpTo
    IN  Min(UnitsCeiling * Pow10(f.srcDecimals), Min(remote.quotesUpTo, tier))

\* Amounts in the search range at the start of the bisection.
InitialWidth(f) == (UnitsCeiling - 1) * Pow10(f.srcDecimals) + 1

(***************************************************************************)
(* C28: after the 24 bisection steps the width of the remaining interval   *)
(* [lo, hi] is at most (initial width) / 2^24, so under a monotonically    *)
(* worsening quote function the returned amount is below the largest       *)
(* acceptable amount by less than 0.01% of the initial search range.       *)
(***************************************************************************)
C28_Resolution ==
    \A s \in DOMAIN search :
        LET f == search[s] IN
        /\ f.phase = "bisect" =>
              f.hi - f.lo + 1 <= InitialWidth(f) \div Pow2(f.i)
        /\ (f.pc = "returned" /\ MonotoneFor(f)) =>
              /\ f.bestAmount <= LargestAcceptable(f)
              /\ LargestAcceptable(f) - f.bestAmount
                    <= InitialWidth(f) \div Pow2(MaxIterations)
              /\ (LargestAcceptable(f) - f.bestAmount) * 10000 < InitialWidth(f)

\* All 24 steps were used and the returned amount is short of the largest
\* acceptable one.
C28_Witness ==
    \E s \in DOMAIN search :
        LET f == search[s] IN
        /\ f.pc = "returned"
        /\ MonotoneFor(f)
        /\ f.i = MaxIterations
        /\ f.lo <= f.hi
        /\ f.bestAmount < LargestAcceptable(f)

(***************************************************************************)
(* C29: for a monotonically worsening quote function, when the loop ends   *)
(* because lo > hi the returned maxSrcAmount is exactly the largest amount *)
(* in [1 unit, 1,000,000 units] whose slippage is <= targetBps.            *)
(***************************************************************************)
C29_ExactOnConvergence ==
    \A s \in DOMAIN search :
        LET f == search[s] IN
        (f.pc = "returned" /\ MonotoneFor(f) /\ f.lo > f.hi) =>
            /\ f.bestAmount = LargestAcceptable(f)
            /\ f.bestSlippage <= f.targetBps

\* A converged search for 100 bps returned the end of the 1% tier.
C29_Witness ==
    \E s \in DOMAIN search :
        LET f == search[s] IN
        /\ f.pc = "returned"
        /\ MonotoneFor(f)
        /\ f.lo > f.hi
        /\ f.targetBps = 100
        /\ f.bestSlippage = 100
        /\ f.bestAmount = remote.curve.hundredUpTo

(***************************************************************************)
(* C30: two searches running concurrently on one StargateClient share no   *)
(* mutable state but the limiter: under every interleaving a step of one   *)
(* leaves the other's locals alone, each search issues its own baseline    *)
(* and its own probes, and a search's lo, hi, bestAmount, bestSlippage and *)
(* samples are those of any other search with the same parameters that has *)
(* got as far, however differently the two were interleaved with others.   *)
(***************************************************************************)
IssuedBy(f) == f.quoteCalls - (IF f.pc = "acquire" THEN 1 ELSE 0)

C30_SearchesIndependent ==
    [][ /\ \A s \in DOMAIN search : \A t \in DOMAIN search \ {s} :
              search'[s] # search[s] => search'[t] = search[t]
        /\ acquires' = IssuedBy(search'[1]) + IssuedBy(search'[2])
        /\ \A s \in DOMAIN search :
              search'[s].phase = "bisect" =>
                  /\ search'[s].quoteCalls >= 2
                  /\ search'[s].samples[1].srcAmount = Pow10(search'[s].srcDecimals)
        /\ \A s \in DOMAIN search : \A t \in DOMAIN search :
              LET f == search'[s]
                  g == search'[t]
              IN  ( /\ f.targetBps = g.targetBps
                    /\ f.srcDecimals = g.srcDecimals
                    /\ f.quoteCalls = g.quoteCalls
                    /\ f.attempt = g.attempt
                    /\ f.pc = g.pc ) => f = g ]_vars

\* The 50 bps and the 100 bps search of one route have both returned, with
\* different amounts.
C30_Witness ==
    /\ DOMAIN search = ConcurrentSearches
    /\ search[1].targetBps = 50
    /\ search[2].targetBps = 100
    /\ search[1].pc = "returned"
    /\ search[2].pc = "returned"
    /\ search[1].bestAmount = 500000
    /\ search[2].bestAmount = 700000

(***************************************************************************)
(* C21: a malformed-response failure (a body the schema rejects: a thrown  *)
(* ZodError, which carries no status) of getQuote, getTokens, getChains or *)
(* fetchMessages is not retried: the operation is attempted exactly once   *)
(* and the error is surfaced at once.                                      *)
(***************************************************************************)
C21_MalformedNotRetried ==
    \A op \in Operations :
        ( /\ shouldRetry = PredicateOf(op)
          /\ failures >= 1
          /\ lastError.id = 1
          /\ lastError.status = NoStatus ) =>
            /\ rpc = "threw"
            /\ calls = 1
            /\ result = [kind |-> "error", error |-> lastError]

(***************************************************************************)
(* C22: no fallback values.  When computeVolume fails for a requested      *)
(* window, or the token/chain listing fails, getSnapshot fails; a resolved *)
(* snapshot never holds a volumeUsd of 0 or an empty assets list that was  *)
(* produced by a failure.                                                  *)
(***************************************************************************)
C22_NoFallbacks ==
    service.snapshot.kind = "resolved" =>
        /\ service.volumeFailed = {}
        /\ ~service.assetsFailed

RECURSIVE OkRoutes(_, _)
\* the positions, in order, of the first n routes whose two searches both
\* returned
OkRoutes(searched, n) ==
    IF n = 0 THEN <<>>
    ELSE IF searched[n].o50.kind = "ok" /\ searched[n].o100.kind = "ok"
         THEN Append(OkRoutes(searched, n - 1), n)
         ELSE OkRoutes(searched, n - 1)

C24_TwoThresholds ==
    service.snapshot.kind = "resolved" =>
        \A k \in 1..Len(service.snapshot.liquidity) :
            LET entry == service.snapshot.liquidity[k]
                found == service.searched[service.pushed[k]]
            IN  /\ Len(entry.thresholds) = 2
                /\ entry.thresholds[1] =
                       [maxAmountIn |-> found.o50.value, slippageBps |-> 50]
                /\ entry.thresholds[2] =
                       [maxAmountIn |-> found.o100.value, slippageBps |-> 100]

\* a resolved snapshot with an entry whose two searches returned different
\* amounts
C24_Witness ==
    /\ service.snapshot.kind = "resolved"
    /\ \E k \in 1..Len(service.snapshot.liquidity) :
          /\ service.snapshot.liquidity[k].thresholds[1].maxAmountIn = 100
          /\ service.snapshot.liquidity[k].thresholds[2].maxAmountIn = 700000

(***************************************************************************)
(* C25: calculateEffectiveRate returns 0 when dstAmount is 0 and srcAmount *)
(* is positive, and signals an error, returning no numeric rate, when      *)
(* srcAmount is 0.                                                         *)
(***************************************************************************)
C25_ZeroSourceIsError ==
    rateCall.out.kind # "pending" =>
        /\ (rateCall.dstAmount = 0 /\ rateCall.srcAmount > 0) =>
               rateCall.out = [kind |-> "number", value |-> Frac(0, 1)]
        /\ rateCall.srcAmount = 0 => rateCall.out.kind = "threw"

(***************************************************************************)
(* C31: monotonicity in the target.  Against the same deterministic quote  *)
(* function, monotone or not, two searches that differ only in their       *)
(* target return amounts ordered as their targets: for targets t1 <= t2    *)
(* the maxSrcAmount returned for t2 is at least the one returned for t1.   *)
(***************************************************************************)
C31_MonotoneInTarget ==
    \A s \in DOMAIN search : \A t \in DOMAIN search :
        ( /\ search[s].pc = "returned"
          /\ search[t].pc = "returned"
          /\ search[s].targetBps <= search[t].targetBps ) =>
            search[s].bestAmount <= search[t].bestAmount

\* Against a curve with a dip the 50 bps search went below the dip and the
\* 100 bps search above it.
C31_Witness ==
    /\ DOMAIN search = ConcurrentSearches
    /\ remote.curve \in DipCurves
    /\ search[1].targetBps = 50
    /\ search[2].targetBps = 100
    /\ search[1].pc = "returned"
    /\ search[2].pc = "returned"
    /\ search[1].bestAmount < remote.curve.dipFrom
    /\ search[2].bestAmount >= remote.curve.dipFrom

(***************************************************************************)
(* C32: for every successful bisection probe the recorded slippageBps is   *)
(* max(0, round((1 - rate/baseRate) * 10000)): a non-negative integer in   *)
(* every Sample, and 0 whenever the probe's effective rate is at least the *)
(* baseline rate.                                                          *)
(***************************************************************************)
C32_SlippageNonNegative ==
    \A s \in DOMAIN search :
        \A k \in 1..Len(search[s].samples) :
            LET sample == search[s].samples[k]
                rate == calculateEffectiveRate(sample.srcAmount,
                            sample.dstAmount, search[s].srcDecimals,
                            search[s].dstDecimals)
                q == FracDiv(rate, search[s].baseRate)
            IN  /\ sample.slippageBps \in Nat
                /\ k > 1 => sample.slippageBps = SlippageBps(rate, search[s].baseRate)
                /\ (k > 1 /\ ~IsNaN(q) /\ (IsInfinite(q) \/ q.num >= q.den)) =>
                       sample.slippageBps = 0

(***************************************************************************)
(* C33: samples are recorded in call order.  The first sample is the       *)
(* baseline quote with slippageBps 0; every getQuote that resolves appends *)
(* exactly one Sample, holding the amounts of that quote, at the end of    *)
(* the list; a step in which no quote resolves (a failed attempt, a failed *)
(* probe, a wait) leaves the list alone; and the list never has more than  *)
(* 25 entries.                                                             *)
(***************************************************************************)
C33_SamplesInCallOrder ==
    [][ \A s \in DOMAIN search :
          LET f == search[s]
              g == search'[s]
              resp == Response(remote, f.srcAmount, f.attempt)
          IN  /\ (f.pc = "fetch" /\ resp.kind = "quote") =>
                    /\ Len(g.samples) = Len(f.samples) + 1
                    /\ \A k \in 1..Len(f.samples) : g.samples[k] = f.samples[k]
                    /\ g.samples[Len(g.samples)].srcAmount = f.srcAmount
                    /\ g.samples[Len(g.samples)].dstAmount = resp.dstAmount
                    /\ f.phase = "baseline" =>
                          /\ f.samples = <<>>
                          /\ g.samples[1].srcAmount = Pow10(f.srcDecimals)
                          /\ g.samples[1].slippageBps = 0
              /\ ~(f.pc = "fetch" /\ resp.kind = "quote") =>
                    g.samples = f.samples
              /\ Len(g.samples) <= MaxIterations + 1 ]_vars

\* A search returned after a probe had failed and others had been sampled.
C33_Witness ==
    \E s \in DOMAIN search :
        /\ search[s].pc = "returned"
        /\ search[s].swallowed # NoFailure
        /\ Len(search[s].samples) >= 3
        /\ Len(search[s].samples) < search[s].i + 1

(***************************************************************************)
(* C35: withRetry sleeps exactly once between two consecutive attempts and *)
(* never after the last one.  An attempt starts only when every earlier    *)
(* attempt has failed and been followed by one sleep; a sleep is only      *)
(* started when another attempt is still to come; once an attempt has      *)
(* succeeded the operation is not invoked again; when withRetry has        *)
(* settled the number of sleeps is the number of attempts less one; and    *)
(* the delays add up to at most maxRetries * maxDelayMs.                   *)
(***************************************************************************)
C35_OneSleepBetweenAttempts ==
    /\ rpc = "call" => (failures = calls /\ sleepCount = calls)
    /\ rpc = "sleep" =>
          (failures = calls /\ sleepCount = calls /\ attempt < maxRetries)
    /\ rpc \in {"returned", "threw"} => sleepCount = calls - 1
    /\ rpc = "returned" => failures = calls - 1
    /\ sleepCount <= maxRetries
    /\ slept <= maxRetries * maxDelayMs

\* withRetry returned from its third attempt, after two sleeps
C35_Witness ==
    /\ rpc = "returned"
    /\ calls = 3
    /\ sleepCount = 2
    /\ slept > delay

(***************************************************************************)
(* C34: a getQuote attempt that exceeds timeoutMs is aborted.  An attempt  *)
(* is never in flight past its timeout; the abort counts as a failed       *)
(* attempt of the retry wrapper and goes through its retry decision (which *)
(* rejects the call with the AbortError), never ending as a success; and   *)
(* the timeout timer is armed exactly while an attempt is in flight, so it *)
(* has been cleared on every exit of the attempt.                          *)
(***************************************************************************)
C34_TimeoutAborts ==
    /\ quoteAttempt.pc \in {"fetch", "body"} =>
          /\ quoteAttempt.timer = "armed"
          /\ quoteAttempt.clock <= quoteAttempt.timerDue
    /\ quoteAttempt.pc \notin {"fetch", "body"} => quoteAttempt.timer # "armed"
    /\ quoteAttempt.aborts <= quoteAttempt.failures
    /\ quoteAttempt.aborts > 0 =>
          /\ quoteAttempt.pc = "rejected"
          /\ quoteAttempt.error.name = "AbortError"
          /\ quoteAttempt.clock = quoteAttempt.timerDue
    /\ quoteAttempt.failures <= quoteAttempt.attempt + 1

\* The first attempt of a call failed and was retried; the second was
\* aborted by its timer.
C34_Witness ==
    /\ quoteAttempt.aborts = 1
    /\ quoteAttempt.attempt = 1
    /\ quoteAttempt.failures = 2
    /\ quoteAttempt.pc = "rejected"
    /\ quoteAttempt.timer = "cleared"

(***************************************************************************)
(* C36: the limiters are owned, separate objects.  A DataProviderService   *)
(* holds one RateLimiter for LayerZero Scan and another for Stargate: a    *)
(* step of fetchMessages' acquire() leaves the Stargate limiter's tokens   *)
(* and lastRefill unchanged, a step of a Stargate operation's acquire()    *)
(* leaves the LayerZero Scan limiter's unchanged, and every returned       *)
(* acquire() of a Stargate operation (quotes for rates, quotes for both    *)
(* searches, tokens, chains) took its token from the one Stargate limiter. *)
(***************************************************************************)
C36_SeparateLimiters ==
    [][ /\ \A op \in ServiceOps :
              ( \/ limiters'.pc[op] # limiters.pc[op]
                \/ limiters'.wakeAt[op] # limiters.wakeAt[op]
                \/ limiters'.returns[op] # limiters.returns[op] ) =>
                  IF op = "fetchMessages"
                  THEN limiters'.lim["stg"] = limiters.lim["stg"]
                  ELSE limiters'.lim["lz"] = limiters.lim["lz"]
        /\ limiters'.drawn["lz"] = limiters'.returns["fetchMessages"]
        /\ limiters'.drawn["stg"] =
              limiters'.returns["rateQuote"] + limiters'.returns["searchQuote50"]
              + limiters'.returns["searchQuote100"] + limiters'.returns["getTokens"]
              + limiters'.returns["getChains"] ]_vars

\* Every operation's acquire() has returned; the Stargate limiter is
\* drained further than the LayerZero Scan limiter.
C36_Witness ==
    /\ \A op \in ServiceOps : limiters.returns[op] = 1
    /\ limiters.drawn["stg"] = 5
    /\ limiters.drawn["lz"] = 1
    /\ limiters.lim["lz"].maxTokens = limiters.lim["stg"].maxTokens
    /\ limiters.lim["lz"].tokens > limiters.lim["stg"].tokens

RECURSIVE ChainEnds(_, _, _)
\* following nextToken from the page at key, a page without a (non-empty)
\* nextToken comes within n pages
ChainEnds(server, key, n) ==
    IF n = 0 THEN FALSE
    ELSE \/ ~Truthy(server[key].nextToken)
         \/ ChainEnds(server, server[key].nextToken, n - 1)

RECURSIVE ChainData(_, _, _)
\* the data of the pages from the one at key up to the first without a
\* nextToken, concatenated (at most n pages)
ChainData(server, key, n) ==
    IF n = 0 THEN <<>>
    ELSE IF Truthy(server[key].nextToken)
         THEN server[key].data \o ChainData(server, server[key].nextToken, n - 1)
         ELSE server[key].data

\* what fetchAllMessages may have done so far
ScanInOrder ==
    /\ scan.acquires = Len(scan.requested)
    /\ scan.requests >= scan.acquires
    /\ \A k \in 1..Len(scan.requested) :
          IF k = 1
          THEN scan.requested[k] = Absent
          ELSE /\ Truthy(scan.requested[k])
               /\ scan.requested[k] =
                     scan.server[RequestKey(scan.requested[k - 1])].nextToken
    /\ scan.pc = "returned" =>
          /\ ChainEnds(scan.server, "first", Len(scan.requested))
          /\ ~ChainEnds(scan.server, "first", Len(scan.requested) - 1)
          /\ scan.result = [kind |-> "value",
                            value |-> ChainData(scan.server, "first", MaxPageCalls)]
    /\ scan.pc = "rejected" => scan.result = [kind |-> "error", value |-> <<>>]
    /\ scan.pc \notin {"returned", "rejected"} => scan.result = NoResult

(***************************************************************************)
(* C37: fetchAllMessages fetches its pages one after another, each request *)
(* carrying the nextToken of the page before, stops at the first page      *)
(* without a nextToken and returns the pages' data concatenated in page    *)
(* order; each page costs one limiter token however often it is retried;   *)
(* a page fetch that fails rejects the whole call with no partial result;  *)
(* and the call returns only if the chain of pages ends, and settles       *)
(* whenever it does.                                                       *)
(***************************************************************************)
C37_PagesInOrder ==
    /\ []ScanInOrder
    /\ ChainEnds(scan.server, "first", MaxPageCalls)
          ~> scan.pc \in {"returned", "rejected"}

\* Three pages were fetched, one of them after a retry, and their data
\* returned in page order.
C37_Witness ==
    /\ scan.pc = "returned"
    /\ scan.requested = <<Absent, "t2", "t1">>
    /\ scan.requests > scan.acquires
    /\ scan.result.value = <<1, 2, 3>>

(***************************************************************************)
(* C38: when exactly one caller is waiting and nobody has touched the      *)
(* bucket since it computed its wait ceil((1 - tokens) / refillRate), that *)
(* wait is sufficient: the refill-and-check after the sleep finds a whole  *)
(* token and acquire() returns, so a lone waiter sleeps once.  (A waiter   *)
(* that sleeps again found the bucket changed by another caller.)          *)
(***************************************************************************)
C38_LoneWaiterSleepsOnce ==
    [][ \A c \in Callers :
          ( /\ pc[c] = "sleeping"
            /\ \A d \in Callers \ {c} : pc[d] # "sleeping"
            /\ lastRefill + WaitTime(tokens, maxTokens) = wakeAt[c]
            /\ \/ pc'[c] # pc[c]
               \/ wakeAt'[c] # wakeAt[c]
               \/ /\ pc' = pc
                  /\ returned' = returned
                  /\ lastRefill' # lastRefill ) =>
              /\ pc'[c] = "idle"
              /\ returned' = returned + 1
              /\ tokens' >= 0 ]_vars

\* A lone waiter on a bucket holding a fraction of a token, its timer due,
\* the bucket as it left it.
C38_Witness ==
    \E c \in Callers :
        /\ pc[c] = "sleeping"
        /\ \A d \in Callers \ {c} : pc[d] # "sleeping"
        /\ tokens > 0
        /\ tokens < TokenScale
        /\ lastRefill + WaitTime(tokens, maxTokens) = wakeAt[c]
        /\ now >= wakeAt[c]

====
